---------------------------- MODULE Spec2Model ----------------------------
(***************************************************************************)
(* State-machine model of ai-backend/blockchain/monitor.py: the event      *)
(* processor (per-proposal and per-voter aggregates), the anomaly          *)
(* detector, and the monitor that scans chains, feeds the event queue and  *)
(* runs the consumer thread and the periodic tasks.                        *)
(***************************************************************************)
EXTENDS Integers, Sequences, FiniteSets, TLC

VARIABLES
    \* EventProcessor
    event_history,        \* event_history['proposals']: the ProposalEvents stored
    voting_patterns,      \* voter -> list of that voter's votes
    proposal_analytics,   \* proposal id -> analytics record
    \* AnomalyDetector
    recent_votes,         \* deque(maxlen=100) of VoteEvents
    alerts,               \* list of alerts
    \* BlockchainMonitor
    running,              \* self.running
    event_queue,          \* queue.Queue(): the items waiting, oldest first
    chains,               \* self.chains: chain -> reference to its chain_info dict
    chain_store,          \* the chain_info dicts ever created: reference -> [last_block]
    contracts,            \* self.contracts: contract key -> registration
    \* threads and tasks, one entry per start_monitoring call
    consumer,             \* the _process_events threads: [pc, event]
    scanner,              \* the _monitor_chain tasks: chain -> [pc, chain_info]
    feed,                 \* the _monitor_websocket tasks: chain -> pc
    cleaner,              \* the _cleanup_old_data tasks: [pc, kept]
    snapshotter,          \* the _periodic_analytics_update tasks: [pc, todo, size]
    redis,                \* the external cache: key -> [value, ttl]
    \* environment
    now,                  \* datetime.now(), in seconds
    chain_head,           \* chain -> the head block the provider reports
    faults,               \* provider faults still to be injected
    \* history (not program state)
    handled,              \* the events the consumer threads have handled, in order
    produced,             \* number of events put on the queue so far
    delivered,            \* log -> number of times it was decoded and queued
    scanned,              \* chain -> blocks given up on an error, and the last pass
    trail                 \* what the claims need to remember about the past

engineVars  == <<event_history, voting_patterns, proposal_analytics, recent_votes, alerts>>
chainVars   == <<chains, chain_store, contracts, chain_head, faults, delivered, scanned>>
taskVars    == <<scanner, feed, cleaner, snapshotter, redis>>
vars == <<event_history, voting_patterns, proposal_analytics, recent_votes, alerts,
          running, event_queue, chains, chain_store, contracts, consumer, scanner, feed,
          cleaner, snapshotter, redis, now, chain_head, faults, handled, produced,
          delivered, scanned, trail>>

-----------------------------------------------------------------------------
(* Bounds of the model *)

MaxEvents == 3          \* events the producers of Spec put on the queue
MaxHead == 3            \* blocks the chain of SpecScan grows beyond the first head
MaxFaults == 1          \* provider faults injected in a run
MaxInits == 2           \* chain_info dicts created per chain (initialize_chains calls)
MaxStarts == 2          \* start_monitoring calls
MaxDays == 8            \* days the clock runs
QueueCapacity == 2      \* the capacity claim C6 is stated for (the code sets none)
MaxStream == 102        \* votes checked in SpecWindow: recent_votes_maxlen and two more
MaxChecks == 3          \* votes checked in SpecDetector
MaxBurst == 6           \* votes checked in SpecBurst

-----------------------------------------------------------------------------
(* Program constants *)

large_vote_threshold == 100000
rapid_voting_threshold == 60
coordinated_window == 300
recent_votes_maxlen == 100
retention_days == 7
queue_maxsize == 0      \* queue.Queue() : maxsize 0, which Queue reads as "no limit"
start_blocks_back == 100

-----------------------------------------------------------------------------
(* Helpers *)

Range(s) == {s[i] : i \in 1..Len(s)}

RECURSIVE SeqSum(_)
SeqSum(s) == IF s = <<>> THEN 0 ELSE Head(s) + SeqSum(Tail(s))

Last(s) == s[Len(s)]

NoEvent == [event_type |-> "none"]

-----------------------------------------------------------------------------
(* Typed projections built by _handle_blockchain_event *)

ProposalEvent(event) ==
    [proposal_id |-> event.data.proposalId,
     proposer    |-> event.data.proposer,
     event_time  |-> event.timestamp,
     chain       |-> event.chain]

\* support is a uint8 in the log (0 against, 1 for, 2 abstain); bool() of it
VoteEvent(event) ==
    [proposal_id  |-> event.data.proposalId,
     voter        |-> event.data.voter,
     support      |-> (event.data.support # 0),
     voting_power |-> event.data.weight,
     event_time   |-> event.timestamp,
     chain        |-> event.chain]

-----------------------------------------------------------------------------
(* EventProcessor *)

\* A mutant of NewAnalytics: an id that has an entry keeps it.
NewAnalyticsKeepingFirst(event) ==
    IF event.proposal_id \in DOMAIN proposal_analytics
    THEN proposal_analytics[event.proposal_id]
    ELSE [created_at      |-> event.event_time,
          votes_for       |-> 0,
          votes_against   |-> 0,
          unique_voters   |-> {},
          voting_velocity |-> <<>>,
          gas_analysis    |-> [total_spent |-> 0, avg_price |-> 0],
          sentiment_score |-> 0]

NewAnalytics(event) ==
    [created_at      |-> event.event_time,
     votes_for       |-> 0,
     votes_against   |-> 0,
     unique_voters   |-> {},
     voting_velocity |-> <<>>,
     gas_analysis    |-> [total_spent |-> 0, avg_price |-> 0],
     sentiment_score |-> 0]

ProcessProposalEvent(event) ==
    /\ event_history' = Append(event_history, event)
    /\ proposal_analytics' =
           [p \in DOMAIN proposal_analytics \cup {event.proposal_id} |->
               IF p = event.proposal_id THEN NewAnalytics(event)
                                        ELSE proposal_analytics[p]]
    /\ UNCHANGED <<voting_patterns, recent_votes, alerts>>

\* A mutant of ApplyVote: the support flag is not looked at.
ApplyVoteIgnoringSupport(analytics, event) ==
    LET voters == analytics.unique_voters \cup {event.voter}
    IN  [analytics EXCEPT
            !.votes_for       = @ + event.voting_power,
            !.unique_voters   = voters,
            !.voting_velocity = Append(@, [timestamp        |-> event.event_time,
                                           cumulative_votes |-> Cardinality(voters)])]

\* A mutant of ApplyVote: a voter already in the set is not counted again.
ApplyVoteOncePerVoter(analytics, event) ==
    IF event.voter \in analytics.unique_voters THEN analytics
    ELSE LET voters == analytics.unique_voters \cup {event.voter}
         IN  [analytics EXCEPT
                !.votes_for       = IF event.support THEN @ + event.voting_power ELSE @,
                !.votes_against   = IF event.support THEN @ ELSE @ + event.voting_power,
                !.unique_voters   = voters,
                !.voting_velocity = Append(@, [timestamp        |-> event.event_time,
                                               cumulative_votes |-> Cardinality(voters)])]

\* A mutant of ApplyVote: the velocity sample is not appended.
ApplyVoteWithoutSample(analytics, event) ==
    [analytics EXCEPT
        !.votes_for     = IF event.support THEN @ + event.voting_power ELSE @,
        !.votes_against = IF event.support THEN @ ELSE @ + event.voting_power,
        !.unique_voters = @ \cup {event.voter}]

\* the body of "if event.proposal_id in self.proposal_analytics"
ApplyVote(analytics, event) ==
    LET voters == analytics.unique_voters \cup {event.voter}
    IN  [analytics EXCEPT
            !.votes_for       = IF event.support THEN @ + event.voting_power ELSE @,
            !.votes_against   = IF event.support THEN @ ELSE @ + event.voting_power,
            !.unique_voters   = voters,
            !.voting_velocity = Append(@, [timestamp        |-> event.event_time,
                                           cumulative_votes |-> Cardinality(voters)])]

\* A mutant of UpdateAnalytics: a vote for an unknown id creates the entry.
UpdateAnalyticsCreating(analytics_map, event) ==
    [p \in DOMAIN analytics_map \cup {event.proposal_id} |->
        IF p # event.proposal_id THEN analytics_map[p]
        ELSE IF p \in DOMAIN analytics_map THEN ApplyVote(analytics_map[p], event)
        ELSE ApplyVote(NewAnalytics(event), event)]

\* "Update proposal analytics": only a known proposal id is touched
UpdateAnalytics(analytics_map, event) ==
    IF event.proposal_id \in DOMAIN analytics_map
    THEN [analytics_map EXCEPT ![event.proposal_id] = ApplyVote(@, event)]
    ELSE analytics_map

\* "Update voting patterns": voting_patterns is a defaultdict(dict)
UpdatePatterns(patterns, event) ==
    LET entry == [proposal_id |-> event.proposal_id,
                  support     |-> event.support,
                  power       |-> event.voting_power,
                  timestamp   |-> event.event_time]
    IN  [v \in DOMAIN patterns \cup {event.voter} |->
            IF v = event.voter
            THEN (IF v \in DOMAIN patterns THEN Append(patterns[v], entry) ELSE <<entry>>)
            ELSE patterns[v]]

-----------------------------------------------------------------------------
(* AnomalyDetector *)

GetSeverity(alert_type) ==
    CASE alert_type = "large_vote"         -> "medium"
      [] alert_type = "rapid_voting"       -> "low"
      [] alert_type = "coordinated_voting" -> "high"
      [] OTHER                             -> "medium"

CreateAlert(alert_type, event, message) ==
    [type        |-> alert_type,
     timestamp   |-> now,
     proposal_id |-> event.proposal_id,
     voter       |-> event.voter,
     message     |-> message,
     severity    |-> GetSeverity(alert_type)]

\* A mutant of DequeAppend: a full window drops its newest entry.
DequeAppendEvictNewest(d, x) ==
    IF Len(d) >= recent_votes_maxlen THEN Append(SubSeq(d, 1, Len(d) - 1), x)
    ELSE Append(d, x)

\* deque(maxlen=100).append
DequeAppend(d, x) ==
    IF Len(d) >= recent_votes_maxlen THEN Append(Tail(d), x) ELSE Append(d, x)

\* A mutant of LargeVoteAlerts: a vote at the threshold raises the alert.
LargeVoteAlertsAtThreshold(vote_event) ==
    IF vote_event.voting_power >= large_vote_threshold
    THEN <<CreateAlert("large_vote", vote_event,
                       <<"Large vote detected", vote_event.voting_power>>)>>
    ELSE <<>>

LargeVoteAlerts(vote_event) ==
    IF vote_event.voting_power > large_vote_threshold
    THEN <<CreateAlert("large_vote", vote_event,
                       <<"Large vote detected", vote_event.voting_power>>)>>
    ELSE <<>>

\* window is recent_votes after the append
RapidVotingAlerts(window, vote_event) ==
    IF Len(window) > 1
    THEN LET time_diff == vote_event.event_time - window[Len(window) - 1].event_time
         IN  IF time_diff < rapid_voting_threshold
             THEN <<CreateAlert("rapid_voting", vote_event,
                                <<"Rapid voting detected", time_diff>>)>>
             ELSE <<>>
    ELSE <<>>

CoordinatedVotingAlerts(window, vote_event) ==
    LET recent_same_proposal ==
            {i \in 1..Len(window) :
                /\ window[i].proposal_id = vote_event.proposal_id
                /\ vote_event.event_time - window[i].event_time < coordinated_window}
        same_support ==
            Cardinality({i \in recent_same_proposal :
                            window[i].support = vote_event.support})
        n == Cardinality(recent_same_proposal)
    IN  \* same_support / n > 0.95
        IF n > 5 /\ 100 * same_support > 95 * n
        THEN <<CreateAlert("coordinated_voting", vote_event,
                           <<"Potential coordinated voting", same_support, n>>)>>
        ELSE <<>>

CheckVotingAnomaly(vote_event) ==
    LET window == DequeAppend(recent_votes, vote_event)
    IN  /\ recent_votes' = window
        /\ alerts' = alerts \o LargeVoteAlerts(vote_event)
                             \o RapidVotingAlerts(window, vote_event)
                             \o CoordinatedVotingAlerts(window, vote_event)

ProcessVoteEvent(event) ==
    /\ proposal_analytics' = UpdateAnalytics(proposal_analytics, event)
    /\ voting_patterns' = UpdatePatterns(voting_patterns, event)
    /\ CheckVotingAnomaly(event)
    /\ UNCHANGED event_history

\* whether _handle_blockchain_event raises KeyError while it builds the
\* ProposalEvent or VoteEvent: event.data lacks a key read with data[...]
\* (the event was decoded against a schema without that input)
Raises(event) ==
    \/ /\ event.event_type = "ProposalCreated"
       /\ ~({"proposalId", "proposer"} \subseteq DOMAIN event.data)
    \/ /\ event.event_type = "VoteCast"
       /\ ~({"proposalId", "voter", "support", "weight"} \subseteq DOMAIN event.data)

\* _handle_blockchain_event: the other event kinds fall through both branches;
\* a KeyError leaves the constructor before the engine is called
HandleBlockchainEvent(event) ==
    IF Raises(event) THEN UNCHANGED engineVars
    ELSE IF event.event_type = "ProposalCreated"
    THEN ProcessProposalEvent(ProposalEvent(event))
    ELSE IF event.event_type = "VoteCast"
    THEN ProcessVoteEvent(VoteEvent(event))
    ELSE UNCHANGED engineVars

-----------------------------------------------------------------------------
(* The chain a provider serves *)

genesis_time == 1700000000

BlockTime(chain) ==
    CASE chain = "ethereum" -> 12
      [] chain = "polygon"  -> 2
      [] chain = "arbitrum" -> 1
      [] OTHER              -> 12      \* get_config falls back to ETHEREUM

BlockTimestamp(chain, number) == genesis_time + number * BlockTime(chain)

\* BlockchainEvent(...) as _parse_event_log builds it
BlockchainEvent(chain, event_name, tx_hash, block_number, args) ==
    [chain            |-> chain,
     event_type       |-> event_name,
     transaction_hash |-> tx_hash,
     block_number     |-> block_number,
     timestamp        |-> BlockTimestamp(chain, block_number),
     data             |-> args]

-----------------------------------------------------------------------------
(* The decoded events the producers of Spec put on the queue *)

\* the first block of the chain that holds a transaction (Transactions)
FirstHead == start_blocks_back + 1

ProposalIds == {1, 2}
Voters == {"0xX", "0xY"}
Weight(voter) == IF voter = "0xX" THEN 500 ELSE 300
SupportValues == {0, 1, 2}
EventBlocks == {start_blocks_back + 1}

DecodedEvents ==
    {BlockchainEvent("ethereum", "ProposalCreated", <<b, 1>>, b,
                     [proposalId |-> p, proposer |-> "0xX"]) :
        p \in ProposalIds, b \in EventBlocks}
    \cup
    {BlockchainEvent("ethereum", "VoteCast", <<b, 2>>, b,
                     [proposalId |-> x[1], voter |-> x[2], support |-> x[3],
                      weight |-> Weight(x[2])]) :
        x \in ProposalIds \X Voters \X SupportValues, b \in EventBlocks}
    \cup
    {BlockchainEvent("ethereum", "Transfer", <<b, 3>>, b,
                     [from |-> "0xX", to |-> "0xY", value |-> 7]) : b \in EventBlocks}

-----------------------------------------------------------------------------
(* BlockchainMonitor: the queue and its consumer threads *)

\* Queue.put blocks while maxsize > 0 and the queue holds maxsize items
CanPut(q) == queue_maxsize <= 0 \/ Len(q) < queue_maxsize

\* self.event_queue.put(blockchain_event) for a decoded event
EnqueueEvent(e) ==
    /\ produced < MaxEvents
    /\ CanPut(event_queue)
    /\ event_queue' = Append(event_queue, e)
    /\ produced' = produced + 1
    /\ trail' = [trail EXCEPT !.queued = Append(@, e)]
    /\ UNCHANGED <<engineVars, chainVars, taskVars, running, consumer, now, handled>>

\* _process_events: event = self.event_queue.get(timeout=1)
ConsumerGet(t) ==
    /\ consumer[t].pc = "loop"
    /\ running
    /\ event_queue # <<>>
    /\ consumer' = [consumer EXCEPT ![t] = [pc |-> "handling", event |-> Head(event_queue)]]
    /\ event_queue' = Tail(event_queue)
    /\ UNCHANGED <<engineVars, chainVars, taskVars, running, now, handled, produced,
                   trail>>

\* A mutant of ConsumerHandle: an exception of the handler is not caught and
\* ends the thread.
ConsumerHandleUncaught(t) ==
    /\ consumer[t].pc = "handling"
    /\ HandleBlockchainEvent(consumer[t].event)
    /\ consumer' = [consumer EXCEPT ![t] =
                       [pc    |-> IF Raises(consumer[t].event) THEN "exited" ELSE "loop",
                        event |-> NoEvent]]
    /\ handled' = Append(handled, consumer[t].event)
    /\ trail' = [trail EXCEPT
                    !.created = @ \o SubSeq(alerts', Len(alerts) + 1, Len(alerts')),
                    !.checked = IF /\ consumer[t].event.event_type = "VoteCast"
                                   /\ ~Raises(consumer[t].event)
                                THEN Append(@, VoteEvent(consumer[t].event))
                                ELSE @]
    /\ UNCHANGED <<chainVars, taskVars, running, event_queue, now, produced>>

\* _process_events: self._handle_blockchain_event(event)
ConsumerHandle(t) ==
    /\ consumer[t].pc = "handling"
    /\ HandleBlockchainEvent(consumer[t].event)
    /\ consumer' = [consumer EXCEPT ![t] = [pc |-> "loop", event |-> NoEvent]]
    /\ handled' = Append(handled, consumer[t].event)
    /\ trail' = [trail EXCEPT
                    !.created = @ \o SubSeq(alerts', Len(alerts) + 1, Len(alerts')),
                    !.checked = IF /\ consumer[t].event.event_type = "VoteCast"
                                   /\ ~Raises(consumer[t].event)
                                THEN Append(@, VoteEvent(consumer[t].event))
                                ELSE @,
                    !.logged  = IF Raises(consumer[t].event)
                                THEN Append(@, consumer[t].event)
                                ELSE @]
    /\ UNCHANGED <<chainVars, taskVars, running, event_queue, now, produced>>

\* _process_events: "while self.running" is false
ConsumerExit(t) ==
    /\ consumer[t].pc = "loop"
    /\ ~running
    /\ consumer' = [consumer EXCEPT ![t] = [pc |-> "exited", event |-> NoEvent]]
    /\ UNCHANGED <<engineVars, chainVars, taskVars, running, event_queue, now, handled,
                   produced, trail>>

-----------------------------------------------------------------------------
(* AnomalyDetector called on its own *)

\* anomaly_detector.check_voting_anomaly(vote_event), for the first `limit` votes
CheckVote(vote_event, limit) ==
    /\ Len(trail.checked) < limit
    /\ CheckVotingAnomaly(vote_event)
    /\ trail' = [trail EXCEPT
                    !.created = @ \o SubSeq(alerts', Len(alerts) + 1, Len(alerts')),
                    !.checked = Append(@, vote_event)]
    /\ UNCHANGED <<event_history, voting_patterns, proposal_analytics, chainVars,
                   taskVars, running, event_queue, consumer, now, handled, produced>>

\* a VoteEvent whose event time is `gap` seconds after that of the vote checked
\* before it (the first one is at genesis_time)
VoteAfter(gap, proposal_id, voter, support, voting_power) ==
    [proposal_id  |-> proposal_id,
     voter        |-> voter,
     support      |-> support,
     voting_power |-> voting_power,
     event_time   |-> IF trail.checked = <<>> THEN genesis_time
                      ELSE Last(trail.checked).event_time + gap,
     chain        |-> "ethereum"]

\* SpecWindow: a long stream of votes of 0xX, 300 s apart, with at most one
\* vote of 0xY somewhere in it
WindowVotes ==
    {VoteAfter(coordinated_window, 1, "0xX", TRUE, Weight("0xX"))}
    \cup (IF \E i \in 1..Len(trail.checked) : trail.checked[i].voter = "0xY"
          THEN {}
          ELSE {VoteAfter(coordinated_window, 2, "0xY", FALSE, Weight("0xY"))})

\* SpecDetector: votes 59, 60 or 61 s after the one before, or 61 s before it
\* (a block scanned after a later one), at and just above the large-vote
\* threshold
DetectorGaps == {59, 60, 61, -61}
DetectorPowers == {large_vote_threshold, large_vote_threshold + 1}

DetectorVotes ==
    {VoteAfter(x[1], 1, x[2], TRUE, x[3]) :
        x \in DetectorGaps \X Voters \X DetectorPowers}

\* SpecBurst: votes on proposal 1, for or against, a second after the one
\* before or 301 s before it, and votes on proposal 2
BurstGaps == {1, -301}

BurstVotes ==
    {VoteAfter(x[1], 1, "0xX", x[2], Weight("0xX")) : x \in BurstGaps \X BOOLEAN}
    \cup {VoteAfter(1, 2, "0xY", TRUE, Weight("0xY"))}

-----------------------------------------------------------------------------
(* What the provider serves: blocks, transactions, receipts *)

Governor == "0xGov"
Token == "0xTok"
NoAddress == ""                          \* tx.to of a contract creation

\* The provider gives tx.to and log.address in the checksum (mixed-case) form,
\* which Governor and Token are; the same addresses written in lower case:
GovernorLower == "0xgov"
TokenLower == "0xtok"

\* eth_utils.to_checksum_address on the addresses of the model
ToChecksumAddress(address) ==
    CASE address \in {Governor, GovernorLower} -> Governor
      [] address \in {Token, TokenLower} -> Token
      [] OTHER -> address

GOVERNOR_ABI == {"ProposalCreated", "VoteCast"}
TOKEN_ABI == {"Transfer"}
EventTypeNames == {"ProposalCreated", "VoteCast", "ProposalExecuted", "ProposalCanceled",
                   "TreasuryUpdate", "Transfer", "DelegationChanged"}

Log(address, topic, args) == [address |-> address, topic |-> topic, args |-> args]

\* the data of a log that processLog cannot decode against the event's schema
Malformed == [malformed |-> TRUE]

\* The transactions of block `number`, each with the logs of its receipt.
\* Blocks up to start_blocks_back are empty; later ones repeat three shapes.
Transactions(chain, number) ==
    IF number <= start_blocks_back THEN <<>>
    ELSE CASE (number - start_blocks_back) % 3 = 1 ->
                <<[hash |-> <<number, 1>>, to |-> Governor,
                   logs |-> <<Log(Governor, "ProposalCreated",
                                  [proposalId |-> 1, proposer |-> "0xX"])>>]>>
           [] (number - start_blocks_back) % 3 = 2 ->
                <<[hash |-> <<number, 1>>, to |-> Governor,
                   logs |-> <<Log(Governor, "OwnershipTransferred", [x |-> 0]),
                              Log(Governor, "VoteCast", Malformed),
                              Log(Governor, "VoteCast",
                                  [proposalId |-> 1, voter |-> "0xX", support |-> 1,
                                   weight |-> Weight("0xX")])>>]>>
           [] OTHER ->
                <<[hash |-> <<number, 1>>, to |-> NoAddress, logs |-> <<>>],
                  [hash |-> <<number, 2>>, to |-> Token,
                   logs |-> <<Log(Token, "Transfer",
                                  [from |-> "0xX", to |-> "0xY", value |-> 7])>>],
                  [hash |-> <<number, 3>>, to |-> Governor,
                   logs |-> <<Log(Token, "Transfer",
                                  [from |-> "0xY", to |-> "0xX", value |-> 7]),
                              Log(Governor, "VoteCast",
                                  [proposalId |-> 1, voter |-> "0xY", support |-> 0,
                                   weight |-> Weight("0xY")])>>]>>

\* One injected provider fault: none, the head query, the fetch of a block, or
\* the fetch of the receipt of a transaction of a block.
NoFault == [kind |-> "none", block |-> 0, tx |-> 0]

Faults(chain, first, last) ==
    {NoFault} \cup
    (IF faults > 0
     THEN {[kind |-> "head", block |-> 0, tx |-> 0]}
          \cup {[kind |-> "block", block |-> b, tx |-> 0] :
                  b \in {x \in first..last : x > start_blocks_back}}
          \cup {[kind |-> "receipt", block |-> b, tx |-> 1] :
                  b \in {x \in first..last : x > start_blocks_back}}
     ELSE {})

BlockFaults(chain, number) == {f \in Faults(chain, number, number) : f.kind # "head"}

-----------------------------------------------------------------------------
(* BlockchainMonitor: scanning *)

\* contract_key = f"{chain.value}:{address}"
ContractKey(chain, address) == <<chain, address>>

\* whether get_event_by_selector finds the log's selector in the contract's
\* ABI, processLog decodes its data and the event name is an EventType
Decodes(abi, log) ==
    /\ log.topic \in abi
    /\ log.args # Malformed
    /\ log.topic \in EventTypeNames

\* _parse_event_log: the queued event, or nothing when the log does not decode
\* (the except: pass)
ParseEventLog(chain, log, tx, number) ==
    LET abi == contracts[ContractKey(chain, log.address)].contract.abi
    IN  IF Decodes(abi, log)
        THEN <<BlockchainEvent(chain, log.topic, tx.hash, number, log.args)>>
        ELSE <<>>

\* a ScanLogs that gives the receipt up at the first log that queues nothing
RECURSIVE ScanLogsAborting(_, _, _, _, _)
ScanLogsAborting(chain, tx, number, t, i) ==
    IF i > Len(tx.logs) THEN <<>>
    ELSE LET log == tx.logs[i]
             events == IF ContractKey(chain, log.address) \in DOMAIN contracts
                       THEN ParseEventLog(chain, log, tx, number)
                       ELSE <<>>
         IN  IF events = <<>> THEN <<>>
             ELSE [k \in 1..Len(events) |->
                      [log |-> <<chain, number, t, i>>, event |-> events[k]]]
                  \o ScanLogsAborting(chain, tx, number, t, i + 1)

\* the deliveries of the logs i.. of a receipt: [log, event]
RECURSIVE ScanLogs(_, _, _, _, _)
ScanLogs(chain, tx, number, t, i) ==
    IF i > Len(tx.logs) THEN <<>>
    ELSE LET log == tx.logs[i]
             events == IF ContractKey(chain, log.address) \in DOMAIN contracts
                       THEN ParseEventLog(chain, log, tx, number)
                       ELSE <<>>
         IN  [k \in 1..Len(events) |->
                 [log |-> <<chain, number, t, i>>, event |-> events[k]]]
             \o ScanLogs(chain, tx, number, t, i + 1)

\* _process_transaction: a failing receipt query is logged and the transaction
\* is given up
ProcessTransaction(chain, tx, number, t, fault) ==
    IF fault.kind = "receipt" /\ fault.block = number /\ fault.tx = t
    THEN <<>>
    ELSE ScanLogs(chain, tx, number, t, 1)

RECURSIVE ScanTransactions(_, _, _, _)
ScanTransactions(chain, number, t, fault) ==
    LET txs == Transactions(chain, number)
    IN  IF t > Len(txs) THEN <<>>
        ELSE (IF /\ txs[t].to # NoAddress
                 /\ ContractKey(chain, txs[t].to) \in DOMAIN contracts
              THEN ProcessTransaction(chain, txs[t], number, t, fault)
              ELSE <<>>)
             \o ScanTransactions(chain, number, t + 1, fault)

\* _process_block: a failing block query is logged and the block is given up
ProcessBlock(chain, number, fault) ==
    IF fault.kind = "block" /\ fault.block = number
    THEN <<>>
    ELSE ScanTransactions(chain, number, 1, fault)

\* whether _process_block(number) ran through without a provider error
ScannedClean(number, fault) == fault.block # number

\* history: the blocks whose scan was given up on an error and that have not
\* been scanned without error since, after the blocks first..last were tried
Missed(missed, first, last, fault) ==
    {b \in missed : ~(first <= b /\ b <= last /\ ScannedClean(b, fault))}
    \cup {b \in first..last : ~ScannedClean(b, fault)}

\* A mutant of ScanRange: the blocks are taken from the last to the first.
RECURSIVE ScanRangeDescending(_, _, _, _)
ScanRangeDescending(chain, first, last, fault) ==
    IF first > last THEN <<>>
    ELSE IF first = last THEN ProcessBlock(chain, first, fault)
    ELSE LET mid == (first + last) \div 2
         IN  ScanRangeDescending(chain, mid + 1, last, fault)
                \o ScanRangeDescending(chain, first, mid, fault)

\* "for block_num in range(last_block + 1, current_block + 1)": the deliveries
\* of the blocks first..last in ascending order (the range is halved rather
\* than peeled, to keep the evaluation shallow)
RECURSIVE ScanRange(_, _, _, _)
ScanRange(chain, first, last, fault) ==
    IF first > last THEN <<>>
    ELSE IF first = last THEN ProcessBlock(chain, first, fault)
    ELSE LET mid == (first + last) \div 2
         IN  ScanRange(chain, first, mid, fault) \o ScanRange(chain, mid + 1, last, fault)

RECURSIVE Counted(_, _)
Counted(counts, deliveries) ==
    IF deliveries = <<>> THEN counts
    ELSE LET l == Head(deliveries).log
         IN  Counted([x \in DOMAIN counts \cup {l} |->
                         IF x = l THEN (IF l \in DOMAIN counts THEN counts[l] + 1 ELSE 1)
                                  ELSE counts[x]],
                     Tail(deliveries))

EventsOf(deliveries) == [k \in 1..Len(deliveries) |-> deliveries[k].event]

CanPutAll(q, n) == queue_maxsize <= 0 \/ Len(q) + n <= queue_maxsize

\* the cursor of a chain as the monitor holds it: self.chains[chain]['last_block']
Cursor(chain) == chain_store[chains[chain]].last_block

\* One iteration of the while loop of _monitor_chain, from the head query to the
\* sleep.  Nothing in it suspends, so no other task of the event loop runs
\* inside it.  chain_info is the dict the task took when it started.
MonitorChain(g, chain) ==
    /\ scanner[g][chain].pc = "loop"
    /\ running
    /\ LET info == scanner[g][chain].chain_info
           current_block == chain_head[chain]
           last_block == IF chain_store[info].last_block = 0
                         THEN current_block - start_blocks_back
                         ELSE chain_store[info].last_block
       IN  \E fault \in Faults(chain, last_block + 1, current_block) :
             /\ faults' = IF fault = NoFault THEN faults ELSE faults - 1
             /\ IF fault.kind = "head"
                THEN UNCHANGED <<event_queue, chain_store, delivered, scanned, produced,
                                 trail>>
                ELSE \E deliveries \in
                            {ScanRange(chain, last_block + 1, current_block, fault)} :
                         /\ CanPutAll(event_queue, Len(deliveries))
                         /\ event_queue' = event_queue \o EventsOf(deliveries)
                         /\ produced' = produced + Len(deliveries)
                         /\ trail' = [trail EXCEPT !.queued = @ \o EventsOf(deliveries)]
                         /\ delivered' = Counted(delivered, deliveries)
                         /\ chain_store' = [chain_store EXCEPT ![info].last_block = current_block]
                         /\ scanned' = [scanned EXCEPT ![chain] =
                                [missed |-> Missed(@.missed, last_block + 1, current_block, fault),
                                 pass   |-> <<last_block + 1, current_block>>]]
    /\ UNCHANGED <<engineVars, taskVars, running, chains, contracts, chain_head, consumer,
                   now, handled>>

\* _monitor_chain: "while self.running" is false
MonitorChainExit(g, chain) ==
    /\ scanner[g][chain].pc = "loop"
    /\ ~running
    /\ scanner' = [scanner EXCEPT ![g][chain].pc = "done"]
    /\ UNCHANGED <<engineVars, chainVars, feed, cleaner, snapshotter, redis, running,
                   event_queue, consumer,
                   now, handled, produced, trail>>

-----------------------------------------------------------------------------
(* BlockchainMonitor: the live feed *)

\* _monitor_websocket: connect and subscribe to newHeads
FeedConnect(g, chain) ==
    /\ feed[g][chain].pc = "loop"
    /\ running
    /\ feed' = [feed EXCEPT ![g][chain] = [pc |-> "listening", inbox |-> <<>>]]
    /\ UNCHANGED <<engineVars, chainVars, scanner, cleaner, snapshotter, redis, running,
                   event_queue, consumer,
                   now, handled, produced, trail>>

\* "async for message in websocket": one newHeads notification, handled by
\* _handle_websocket_message: the block it names is processed
FeedMessage(g, chain) ==
    /\ feed[g][chain].pc = "listening"
    /\ feed[g][chain].inbox # <<>>
    /\ LET block_number == Head(feed[g][chain].inbox)
       IN  \E fault \in BlockFaults(chain, block_number) :
             LET deliveries == ProcessBlock(chain, block_number, fault)
             IN  /\ faults' = IF fault = NoFault THEN faults ELSE faults - 1
                 /\ CanPutAll(event_queue, Len(deliveries))
                 /\ event_queue' = event_queue \o EventsOf(deliveries)
                 /\ produced' = produced + Len(deliveries)
                 /\ delivered' = Counted(delivered, deliveries)
                 /\ scanned' = [scanned EXCEPT ![chain].missed =
                                   Missed(@, block_number, block_number, fault)]
                 /\ trail' = [trail EXCEPT
                                 !.fed_stopped[g][chain] = IF running THEN @ ELSE @ + 1,
                                 !.queued = @ \o EventsOf(deliveries)]
    /\ feed' = [feed EXCEPT ![g][chain].inbox = Tail(@)]
    /\ UNCHANGED <<engineVars, scanner, cleaner, snapshotter, redis, running, chains,
                   chain_store, contracts,
                   chain_head, consumer, now, handled>>

\* a FeedError that lets the exception end the task
FeedErrorFatal(g, chain) ==
    /\ feed[g][chain].pc = "listening"
    /\ faults > 0
    /\ faults' = faults - 1
    /\ feed' = [feed EXCEPT ![g][chain] = [pc |-> "done", inbox |-> <<>>]]
    /\ UNCHANGED <<engineVars, scanner, cleaner, snapshotter, redis, running, chains,
                   chain_store, contracts,
                   chain_head, delivered, scanned, event_queue, consumer, now, handled,
                   produced, trail>>

\* the connection fails: "except Exception", sleep 30, back to the while test
FeedError(g, chain) ==
    /\ feed[g][chain].pc = "listening"
    /\ faults > 0
    /\ faults' = faults - 1
    /\ feed' = [feed EXCEPT ![g][chain] = [pc |-> "loop", inbox |-> <<>>]]
    /\ UNCHANGED <<engineVars, scanner, cleaner, snapshotter, redis, running, chains,
                   chain_store, contracts,
                   chain_head, delivered, scanned, event_queue, consumer, now, handled,
                   produced, trail>>

\* _monitor_websocket: "while self.running" is false
FeedExit(g, chain) ==
    /\ feed[g][chain].pc = "loop"
    /\ ~running
    /\ feed' = [feed EXCEPT ![g][chain].pc = "done"]
    /\ UNCHANGED <<engineVars, chainVars, scanner, cleaner, snapshotter, redis, running,
                   event_queue, consumer,
                   now, handled, produced, trail>>

-----------------------------------------------------------------------------
(* The provider *)

\* the chain grows by a block; every open subscription is notified of it
ProviderNewBlock(chain) ==
    /\ chain_head[chain] < FirstHead + MaxHead
    /\ chain_head' = [chain_head EXCEPT ![chain] = @ + 1]
    /\ feed' = [g \in DOMAIN feed |->
                  [c \in DOMAIN feed[g] |->
                      IF c = chain /\ feed[g][c].pc = "listening"
                      THEN [feed[g][c] EXCEPT !.inbox = Append(@, chain_head[chain] + 1)]
                      ELSE feed[g][c]]]
    /\ UNCHANGED <<engineVars, scanner, cleaner, snapshotter, redis, running, chains,
                   chain_store, contracts,
                   faults, delivered, scanned, event_queue, consumer, now, handled,
                   produced, trail>>

\* the provider answers from a node that is a block behind (or the chain
\* reorganised): the head it reports is lower than the one it reported before
ProviderRegress(chain) ==
    /\ faults > 0
    /\ chain_head[chain] > FirstHead
    /\ faults' = faults - 1
    /\ chain_head' = [chain_head EXCEPT ![chain] = @ - 1]
    /\ UNCHANGED <<engineVars, taskVars, running, chains, chain_store, contracts,
                   delivered, scanned, event_queue, consumer, now, handled, produced,
                   trail>>

-----------------------------------------------------------------------------
(* BlockchainMonitor: registration *)

\* initialize_chains(chain_list): every chain gets a new chain_info dict with
\* last_block 0; the tasks already running keep the dict they hold
RECURSIVE Initialized(_, _, _)
Initialized(refs, store, chain_list) ==
    IF chain_list = <<>> THEN [refs |-> refs, store |-> store]
    ELSE LET c == Head(chain_list)
             store2 == Append(store, [last_block |-> 0])
         IN  Initialized([x \in DOMAIN refs \cup {c} |->
                             IF x = c THEN Len(store2) ELSE refs[x]],
                         store2, Tail(chain_list))

InitializeChains(chain_list) ==
    /\ Len(chain_store) + Len(chain_list) <= MaxInits
    /\ LET r == Initialized(chains, chain_store, chain_list)
       IN  /\ chains' = r.refs
           /\ chain_store' = r.store
    /\ UNCHANGED <<engineVars, taskVars, running, contracts, chain_head, faults, delivered,
                   scanned, event_queue, consumer, now, handled, produced, trail>>

-----------------------------------------------------------------------------
(* BlockchainMonitor: start, stop, cleanup *)

\* start_monitoring: sets the flag, starts a consumer thread, and gathers a
\* _monitor_chain and a _monitor_websocket task per chain and the periodic tasks
StartMonitoring ==
    /\ Len(consumer) < MaxStarts
    /\ running' = TRUE
    /\ consumer' = Append(consumer, [pc |-> "loop", event |-> NoEvent])
    /\ scanner' = Append(scanner, [c \in DOMAIN chains |->
                                     [pc |-> "loop", chain_info |-> chains[c]]])
    /\ feed' = Append(feed, [c \in DOMAIN chains |-> [pc |-> "loop", inbox |-> <<>>]])
    /\ cleaner' = Append(cleaner, [pc |-> "loop", kept |-> <<>>])
    /\ snapshotter' = Append(snapshotter, [pc |-> "loop", todo |-> {}, size |-> 0])
    /\ trail' = [trail EXCEPT
                    !.fed_stopped = Append(@, [c \in DOMAIN chains |-> 0]),
                    !.cleaning    = Append(@, [seen |-> <<>>, at |-> 0])]
    /\ UNCHANGED <<engineVars, chainVars, redis, event_queue, now, handled, produced>>

\* stop_monitoring
StopMonitoring ==
    /\ running
    /\ running' = FALSE
    /\ trail' = [trail EXCEPT
                    !.fed_stopped = [g \in DOMAIN @ |-> [c \in DOMAIN @[g] |-> 0]],
                    !.accepted    = produced]
    /\ UNCHANGED <<engineVars, chainVars, taskVars, event_queue, consumer, now, handled,
                   produced>>

day == 86400

\* A mutant of KeptAlerts: an alert created exactly at the cutoff is kept.
KeptAlertsAtCutoff(alert_list, cutoff_time) ==
    SelectSeq(alert_list, LAMBDA alert : alert.timestamp >= cutoff_time)

\* [alert for alert in alerts if alert['timestamp'] > cutoff_time]
KeptAlerts(alert_list, cutoff_time) ==
    SelectSeq(alert_list, LAMBDA alert : alert.timestamp > cutoff_time)

\* _cleanup_old_data: the list comprehension has run over the alerts; its
\* result is not yet stored
CleanupFilter(g) ==
    /\ cleaner[g].pc = "loop"
    /\ running
    /\ LET cutoff_time == now - retention_days * day
       IN  cleaner' = [cleaner EXCEPT ![g] =
              [pc |-> "store", kept |-> KeptAlerts(alerts, cutoff_time)]]
    /\ trail' = [trail EXCEPT !.cleaning[g] = [seen |-> alerts, at |-> now]]
    /\ UNCHANGED <<engineVars, chainVars, scanner, feed, snapshotter, redis, running,
                   event_queue, consumer, now, handled, produced>>

\* _cleanup_old_data: the result is stored in anomaly_detector.alerts
CleanupStore(g) ==
    /\ cleaner[g].pc = "store"
    /\ alerts' = cleaner[g].kept
    /\ cleaner' = [cleaner EXCEPT ![g] = [pc |-> "loop", kept |-> <<>>]]
    /\ UNCHANGED <<event_history, voting_patterns, proposal_analytics, recent_votes,
                   chainVars, scanner, feed, snapshotter, redis, running, event_queue,
                   consumer, now, handled,
                   produced, trail>>

\* _cleanup_old_data: "while self.running" is false
CleanupExit(g) ==
    /\ cleaner[g].pc = "loop"
    /\ ~running
    /\ cleaner' = [cleaner EXCEPT ![g].pc = "done"]
    /\ UNCHANGED <<engineVars, chainVars, scanner, feed, snapshotter, redis, running, event_queue,
                   consumer,
                   now, handled, produced, trail>>

\* the wall clock moves on by a day or by the retention time
Tick ==
    /\ now < genesis_time + MaxDays * day
    /\ \E d \in {1, retention_days} : now' = now + d * day
    /\ UNCHANGED <<engineVars, chainVars, taskVars, running, event_queue, consumer,
                   handled, produced, trail>>

-----------------------------------------------------------------------------
(* EventProcessor.get_proposal_analytics and the snapshot task *)

\* np.mean(time_diffs) as the fraction sum / count
Mean(values) == [sum |-> SeqSum(values), count |-> Len(values)]

\* A mutant of GetProposalAnalytics: the voter count is taken from the number
\* of velocity samples.
GetProposalAnalyticsCountingSamples(proposal_id) ==
    IF proposal_id \notin DOMAIN proposal_analytics THEN <<>>
    ELSE LET a == proposal_analytics[proposal_id]
         IN  [created_at      |-> a.created_at,
              votes_for       |-> a.votes_for,
              votes_against   |-> a.votes_against,
              unique_voters   |-> Len(a.voting_velocity),
              voting_velocity |-> a.voting_velocity,
              gas_analysis    |-> a.gas_analysis,
              sentiment_score |-> a.sentiment_score]

\* an unknown id gives {}; a known one a copy with the voter set replaced by
\* its size and, when there is a velocity sample, avg_voting_interval
GetProposalAnalytics(proposal_id) ==
    IF proposal_id \notin DOMAIN proposal_analytics THEN <<>>
    ELSE LET a == proposal_analytics[proposal_id]
             v == a.voting_velocity
             copy == [created_at      |-> a.created_at,
                      votes_for       |-> a.votes_for,
                      votes_against   |-> a.votes_against,
                      unique_voters   |-> Cardinality(a.unique_voters),
                      voting_velocity |-> v,
                      gas_analysis    |-> a.gas_analysis,
                      sentiment_score |-> a.sentiment_score]
             time_diffs == [i \in 1..(Len(v) - 1) |-> v[i + 1].timestamp - v[i].timestamp]
         IN  IF v # <<>>
             THEN [x \in DOMAIN copy \cup {"avg_voting_interval"} |->
                     IF x = "avg_voting_interval"
                     THEN (IF time_diffs # <<>> THEN Mean(time_diffs) ELSE Mean(<<0>>))
                     ELSE copy[x]]
             ELSE copy

\* strftime('%Y-%m') of an event time; the event times of the model lie in
\* November and December 2023
MonthKey(t) == IF t < 1701388800 THEN "2023-11" ELSE "2023-12"

\* _find_most_active_period: the month with the most votes, the one met first
\* among equals (max over a dict in insertion order)
FindMostActivePeriod(votes) ==
    IF Len(votes) < 2 THEN "insufficient_data"
    ELSE LET Count(m) == Cardinality({i \in 1..Len(votes) :
                                         MonthKey(votes[i].timestamp) = m})
             First(m) == CHOOSE i \in 1..Len(votes) :
                            /\ MonthKey(votes[i].timestamp) = m
                            /\ \A j \in 1..(i - 1) : MonthKey(votes[j].timestamp) # m
             months == {MonthKey(votes[i].timestamp) : i \in 1..Len(votes)}
         IN  CHOOSE m \in months :
                \A o \in months :
                    \/ Count(o) < Count(m)
                    \/ Count(o) = Count(m) /\ First(m) <= First(o)

\* A mutant of GetVoterProfile: the pattern of the address is read without
\* the membership test, which raises KeyError on a plain dict.
GetVoterProfileUnchecked(voter_address) ==
    IF voter_address \notin DOMAIN voting_patterns THEN [raised |-> "KeyError"]
    ELSE [total_votes |-> Len(voting_patterns[voter_address])]

\* get_voter_profile: an unknown address, or one without votes, gives {}
GetVoterProfile(voter_address) ==
    IF voter_address \notin DOMAIN voting_patterns THEN <<>>
    ELSE LET votes == voting_patterns[voter_address]
             times == {votes[i].timestamp : i \in 1..Len(votes)}
         IN  IF votes = <<>> THEN <<>>
             ELSE [total_votes        |-> Len(votes),
                   support_ratio      |->
                       [sum   |-> Cardinality({i \in 1..Len(votes) : votes[i].support}),
                        count |-> Len(votes)],
                   avg_voting_power   |-> Mean([i \in 1..Len(votes) |-> votes[i].power]),
                   first_vote         |-> CHOOSE t \in times : \A u \in times : t <= u,
                   last_vote          |-> CHOOSE t \in times : \A u \in times : u <= t,
                   most_active_period |-> FindMostActivePeriod(votes)]

\* json.dumps(analytics, default=str): the datetimes become strings
Str(t) == <<"str", t>>
JsonDumps(a) ==
    [x \in DOMAIN a |->
        IF x = "created_at" THEN Str(a[x])
        ELSE IF x = "voting_velocity"
        THEN [i \in DOMAIN a[x] |-> [a[x][i] EXCEPT !.timestamp = Str(@)]]
        ELSE a[x]]

CacheKey(proposal_id) == <<"analytics:proposal", proposal_id>>
cache_ttl == 3600

\* _periodic_analytics_update: the for loop starts on the keys of the dict
SnapshotBegin(g) ==
    /\ snapshotter[g].pc = "loop"
    /\ running
    /\ snapshotter' = [snapshotter EXCEPT ![g] =
          [pc   |-> "iterating",
           todo |-> DOMAIN proposal_analytics,
           size |-> Cardinality(DOMAIN proposal_analytics)]]
    /\ UNCHANGED <<engineVars, chainVars, scanner, feed, cleaner, redis, running,
                   event_queue, consumer, now, handled, produced, trail>>

\* one step of the for loop.  The dict iterator raises when the dict changed
\* size since the loop started; setex raises when the cache cannot be reached;
\* either way the pass is given up (except Exception, sleep 60).
SnapshotNext(g) ==
    /\ snapshotter[g].pc = "iterating"
    /\ LET task == snapshotter[g]
           idle == [pc |-> "loop", todo |-> {}, size |-> 0]
       IN  IF Cardinality(DOMAIN proposal_analytics) # task.size
           THEN /\ snapshotter' = [snapshotter EXCEPT ![g] = idle]
                /\ UNCHANGED <<redis, faults>>
           ELSE IF task.todo \cap DOMAIN proposal_analytics = {}
           THEN /\ snapshotter' = [snapshotter EXCEPT ![g] = idle]
                /\ UNCHANGED <<redis, faults>>
           ELSE \E proposal_id \in task.todo \cap DOMAIN proposal_analytics :
                \E reachable \in (IF faults > 0 THEN {TRUE, FALSE} ELSE {TRUE}) :
                    IF reachable
                    THEN /\ redis' =
                              [k \in DOMAIN redis \cup {CacheKey(proposal_id)} |->
                                  IF k = CacheKey(proposal_id)
                                  THEN [value |-> JsonDumps(GetProposalAnalytics(proposal_id)),
                                        ttl   |-> cache_ttl]
                                  ELSE redis[k]]
                         /\ snapshotter' =
                              [snapshotter EXCEPT ![g].todo = @ \ {proposal_id}]
                         /\ UNCHANGED faults
                    ELSE /\ faults' = faults - 1
                         /\ snapshotter' = [snapshotter EXCEPT ![g] = idle]
                         /\ UNCHANGED redis
    /\ UNCHANGED <<engineVars, chains, chain_store, contracts, chain_head, delivered,
                   scanned, scanner, feed, cleaner, running, event_queue, consumer, now,
                   handled, produced, trail>>

\* _periodic_analytics_update: "while self.running" is false
SnapshotExit(g) ==
    /\ snapshotter[g].pc = "loop"
    /\ ~running
    /\ snapshotter' = [snapshotter EXCEPT ![g].pc = "done"]
    /\ UNCHANGED <<engineVars, chainVars, scanner, feed, cleaner, redis, running,
                   event_queue, consumer, now, handled, produced, trail>>

-----------------------------------------------------------------------------
(* Initial states *)

\* EventProcessor.__init__ and AnomalyDetector.__init__
InitEngine ==
    /\ event_history = <<>>
    /\ voting_patterns = <<>>
    /\ proposal_analytics = <<>>
    /\ recent_votes = <<>>
    /\ alerts = <<>>

InitHistory ==
    /\ handled = <<>>
    /\ produced = 0
    /\ delivered = <<>>

\* initialize_monitoring: chains_to_monitor (ethereum and polygon there; the
\* model follows one chain)
MonitoredChains == <<"ethereum">>

\* the entry add_contract stores for a contract
Registration(chain, address, abi, contract_type) ==
    [contract |-> [address |-> ToChecksumAddress(address), abi |-> abi],
     chain    |-> chain,
     type     |-> contract_type,
     address  |-> address]

\* BlockchainMonitor(), initialize_chains(MonitoredChains) and add_contract for
\* the governor; the provider may fail fault_budget times and reports
\* first_head as the head of the chain
InitMonitoring(fault_budget, first_head) ==
    /\ InitEngine
    /\ InitHistory
    /\ event_queue = <<>>
    /\ LET r == Initialized(<<>>, <<>>, MonitoredChains)
       IN  /\ chains = r.refs
           /\ chain_store = r.store
    /\ contracts = [k \in {ContractKey("ethereum", Governor)} |->
                       Registration("ethereum", Governor, GOVERNOR_ABI, "governance")]
    /\ now = genesis_time
    /\ chain_head = [c \in Range(MonitoredChains) |-> first_head]
    /\ faults = fault_budget
    /\ scanned = [c \in Range(MonitoredChains) |-> [missed |-> {}, pass |-> <<>>]]
    /\ redis = <<>>

\* right after the first start_monitoring
Started ==
    /\ running = TRUE
    /\ consumer = <<[pc |-> "loop", event |-> NoEvent]>>
    /\ scanner = <<[c \in Range(MonitoredChains) |->
                      [pc |-> "loop", chain_info |-> chains[c]]]>>
    /\ feed = <<[c \in Range(MonitoredChains) |-> [pc |-> "loop", inbox |-> <<>>]]>>
    /\ cleaner = <<[pc |-> "loop", kept |-> <<>>]>>
    /\ snapshotter = <<[pc |-> "loop", todo |-> {}, size |-> 0]>>
    /\ trail = [created     |-> <<>>,
                checked     |-> <<>>,
                fed_stopped |-> <<[c \in Range(MonitoredChains) |-> 0]>>,
                cleaning    |-> <<[seen |-> <<>>, at |-> 0]>>,
                returned    |-> <<>>,
                queued      |-> <<>>,
                logged      |-> <<>>,
                accepted    |-> 0]

\* before start_monitoring
NotStarted ==
    /\ running = FALSE
    /\ consumer = <<>>
    /\ scanner = <<>>
    /\ feed = <<>>
    /\ cleaner = <<>>
    /\ snapshotter = <<>>
    /\ trail = [created |-> <<>>, checked |-> <<>>, fed_stopped |-> <<>>,
                cleaning |-> <<>>, returned |-> <<>>, queued |-> <<>>, logged |-> <<>>,
                accepted |-> 0]

InitStarted == InitMonitoring(0, FirstHead) /\ Started

-----------------------------------------------------------------------------
(* Spec: the monitor started once; the decoded events come from EnqueueEvent, *)
(* which stands for the producers; the consumer thread handles them.          *)

Next ==
    \/ \E e \in DecodedEvents : EnqueueEvent(e)
    \/ \E t \in DOMAIN consumer : ConsumerGet(t)
    \/ \E t \in DOMAIN consumer : ConsumerHandle(t)

Spec == InitStarted /\ [][Next]_vars

-----------------------------------------------------------------------------
(* SpecScan: one chain with the governor contract registered, the monitor    *)
(* started once and never stopped; the provider grows the chain, may fail    *)
(* MaxFaults times, and initialize_chains may be called again.               *)

InitScan == InitMonitoring(MaxFaults, FirstHead) /\ Started

NextScan ==
    \/ \E c \in DOMAIN chains : ProviderNewBlock(c)
    \/ \E c \in DOMAIN chains : ProviderRegress(c)
    \/ \E g \in DOMAIN scanner : \E c \in DOMAIN scanner[g] : MonitorChain(g, c)
    \/ \E g \in DOMAIN feed : \E c \in DOMAIN feed[g] : FeedConnect(g, c)
    \/ \E g \in DOMAIN feed : \E c \in DOMAIN feed[g] : FeedMessage(g, c)
    \/ \E g \in DOMAIN feed : \E c \in DOMAIN feed[g] : FeedError(g, c)
    \/ InitializeChains(MonitoredChains)
    \/ \E t \in DOMAIN consumer : ConsumerGet(t)
    \/ \E t \in DOMAIN consumer : ConsumerHandle(t)

SpecScan == InitScan /\ [][NextScan]_vars

-----------------------------------------------------------------------------
(* SpecRetry: the scanner and the live feed of SpecScan with a provider that *)
(* may fail MaxFaults times; the chains are not initialised again, and the   *)
(* consumer is left out: the queue is unbounded, so it never holds a         *)
(* producer up.  The event loop runs the scanner task again after each       *)
(* sleep, which is weak fairness of its pass.                                *)

NextRetry ==
    \/ \E c \in DOMAIN chains : ProviderNewBlock(c)
    \/ \E c \in DOMAIN chains : ProviderRegress(c)
    \/ \E g \in DOMAIN scanner : \E c \in DOMAIN scanner[g] : MonitorChain(g, c)
    \/ \E g \in DOMAIN feed : \E c \in DOMAIN feed[g] : FeedConnect(g, c)
    \/ \E g \in DOMAIN feed : \E c \in DOMAIN feed[g] : FeedMessage(g, c)
    \/ \E g \in DOMAIN feed : \E c \in DOMAIN feed[g] : FeedError(g, c)

\* the head the chain of SpecRetry starts at
RetryFirstHead == FirstHead + MaxHead - 2

InitRetry == InitMonitoring(MaxFaults, RetryFirstHead) /\ Started

SpecRetry ==
    /\ InitRetry
    /\ [][NextRetry]_vars
    /\ WF_vars(\E g \in DOMAIN scanner : \E c \in DOMAIN scanner[g] : MonitorChain(g, c))

-----------------------------------------------------------------------------
(* SpecRestart: the monitor is started and stopped, up to MaxStarts starts;  *)
(* the producers queue votes; the consumer threads run.                      *)

\* the votes of one voter on one proposal, and the proposal
RapidVotes ==
    {e \in DecodedEvents :
        \/ e.event_type = "ProposalCreated" /\ e.data.proposalId = 1
        \/ /\ e.event_type = "VoteCast"
           /\ e.data.proposalId = 1
           /\ e.data.voter = "0xX"
           /\ e.data.support = 1}

InitRestart == InitMonitoring(0, FirstHead) /\ NotStarted

NextRestart ==
    \/ StartMonitoring
    \/ StopMonitoring
    \/ \E e \in RapidVotes : EnqueueEvent(e)
    \/ \E t \in DOMAIN consumer : ConsumerGet(t)
    \/ \E t \in DOMAIN consumer : ConsumerHandle(t)
    \/ \E t \in DOMAIN consumer : ConsumerExit(t)

SpecRestart == InitRestart /\ [][NextRestart]_vars

-----------------------------------------------------------------------------
(* SpecStop: the monitor started once and then stopped; every loop of the    *)
(* start runs; the chain grows; the provider does not fail.                  *)

\* the chain is two blocks short of the last block the provider serves
InitStop == InitMonitoring(0, FirstHead + MaxHead - 2) /\ Started

NextStop ==
    \/ StopMonitoring
    \/ \E c \in DOMAIN chains : ProviderNewBlock(c)
    \/ \E g \in DOMAIN scanner : \E c \in DOMAIN scanner[g] : MonitorChain(g, c)
    \/ \E g \in DOMAIN scanner : \E c \in DOMAIN scanner[g] : MonitorChainExit(g, c)
    \/ \E g \in DOMAIN feed : \E c \in DOMAIN feed[g] : FeedConnect(g, c)
    \/ \E g \in DOMAIN feed : \E c \in DOMAIN feed[g] : FeedMessage(g, c)
    \/ \E g \in DOMAIN feed : \E c \in DOMAIN feed[g] : FeedExit(g, c)
    \/ \E t \in DOMAIN consumer : ConsumerGet(t)
    \/ \E t \in DOMAIN consumer : ConsumerHandle(t)
    \/ \E t \in DOMAIN consumer : ConsumerExit(t)
    \/ \E g \in DOMAIN cleaner : CleanupFilter(g)
    \/ \E g \in DOMAIN cleaner : CleanupStore(g)
    \/ \E g \in DOMAIN cleaner : CleanupExit(g)
    \/ \E g \in DOMAIN snapshotter : SnapshotBegin(g)
    \/ \E g \in DOMAIN snapshotter : SnapshotNext(g)
    \/ \E g \in DOMAIN snapshotter : SnapshotExit(g)

SpecStop == InitStop /\ [][NextStop]_vars

-----------------------------------------------------------------------------
(* SpecCleanup: the consumer thread and the cleanup task of one start, the   *)
(* clock running; the producers queue votes of one voter on one proposal.    *)

NextCleanup ==
    \/ \E e \in RapidVotes : EnqueueEvent(e)
    \/ \E t \in DOMAIN consumer : ConsumerGet(t)
    \/ \E t \in DOMAIN consumer : ConsumerHandle(t)
    \/ \E g \in DOMAIN cleaner : CleanupFilter(g)
    \/ \E g \in DOMAIN cleaner : CleanupStore(g)
    \/ Tick

SpecCleanup == InitStarted /\ [][NextCleanup]_vars

-----------------------------------------------------------------------------
(* SpecWindow: check_voting_anomaly is called MaxStream times, more often    *)
(* than the recent-vote window is long.                                      *)

NextWindow == \E v \in WindowVotes : CheckVote(v, MaxStream)

SpecWindow == InitStarted /\ [][NextWindow]_vars

-----------------------------------------------------------------------------
(* SpecDetector: check_voting_anomaly is called MaxChecks times with votes   *)
(* around the large-vote and rapid-voting thresholds.                        *)

NextDetector == \E v \in DetectorVotes : CheckVote(v, MaxChecks)

SpecDetector == InitStarted /\ [][NextDetector]_vars

-----------------------------------------------------------------------------
(* SpecBurst: check_voting_anomaly is called MaxBurst times with votes close *)
(* in time.                                                                  *)

NextBurst == \E v \in BurstVotes : CheckVote(v, MaxBurst)

SpecBurst == InitStarted /\ [][NextBurst]_vars

-----------------------------------------------------------------------------
(* SpecSnapshot: the consumer thread and the snapshot task of one start; the *)
(* producers queue the creation of two proposals and votes on the first; the *)
(* cache is reachable.                                                       *)

SnapshotEvents ==
    {e \in DecodedEvents :
        \/ e.event_type = "ProposalCreated"
        \/ /\ e.event_type = "VoteCast"
           /\ e.data.proposalId = 1
           /\ e.data.voter = "0xX"
           /\ e.data.support = 1}

NextSnapshot ==
    \/ \E e \in SnapshotEvents : EnqueueEvent(e)
    \/ \E t \in DOMAIN consumer : ConsumerGet(t)
    \/ \E t \in DOMAIN consumer : ConsumerHandle(t)
    \/ \E g \in DOMAIN snapshotter : SnapshotBegin(g)
    \/ \E g \in DOMAIN snapshotter : SnapshotNext(g)

SpecSnapshot == InitStarted /\ [][NextSnapshot]_vars

-----------------------------------------------------------------------------
(* What the consumer has handled, as the properties read it *)

IsVoteFor(e, pid) == e.event_type = "VoteCast" /\ e.data.proposalId = pid
IsCreation(e, pid) == e.event_type = "ProposalCreated" /\ e.data.proposalId = pid

\* index in handled of the ProposalCreated that made the current entry of pid
LastCreated(pid) ==
    LET at == {i \in 1..Len(handled) : IsCreation(handled[i], pid)}
    IN  IF at = {} THEN 0 ELSE CHOOSE i \in at : \A j \in at : j <= i

\* the VoteCast events for pid handled since its entry was created, in order
VotesSince(pid) ==
    SelectSeq(SubSeq(handled, LastCreated(pid) + 1, Len(handled)),
              LAMBDA e : IsVoteFor(e, pid))

RECURSIVE WeightSum(_)
WeightSum(events) ==
    IF events = <<>> THEN 0 ELSE Head(events).data.weight + WeightSum(Tail(events))

\* thread t finishes handling an event in this step
Handles(t) == consumer[t].pc = "handling" /\ consumer'[t].pc = "loop"

\* a vote is checked by the anomaly detector in this step
ChecksVote == Len(trail.checked') = Len(trail.checked) + 1

\* the alerts created in this step
NewAlerts == SubSeq(trail.created', Len(trail.created) + 1, Len(trail.created'))

\* the alerts of one type among them
NewAlertsOf(alert_type) == SelectSeq(NewAlerts, LAMBDA a : a.type = alert_type)

Abs(x) == IF x < 0 THEN -x ELSE x

\* everything that was queued has been handled
Drained ==
    /\ event_queue = <<>>
    /\ Len(handled) = produced
    /\ \A t \in DOMAIN consumer : consumer[t].pc # "handling"

\* the cursor in the chain_info dict a _monitor_chain task works on
TaskCursor(g, chain) == chain_store[scanner[g][chain].chain_info].last_block

\* the consumer threads that have not left their loop
ActiveConsumers == {t \in DOMAIN consumer : consumer[t].pc # "exited"}

\* an alert that the cleanup running now would keep
Recent(alert) == alert.timestamp > now - retention_days * day

-----------------------------------------------------------------------------
(* Properties *)

(* C1: for every proposal that has an analytics entry, votes_for is the sum  *)
(* of the weights of the VoteCast events with support set handled since the  *)
(* entry was created, votes_against the sum of those with support clear (so  *)
(* their sum is the sum of all the weights), and the unique-voter set holds  *)
(* exactly the distinct voters of those events.                              *)
C1_TalliesMatchVotes ==
    \A pid \in DOMAIN proposal_analytics :
        LET votes == VotesSince(pid)
            a == proposal_analytics[pid]
        IN  /\ a.votes_for = WeightSum(SelectSeq(votes, LAMBDA e : e.data.support # 0))
            /\ a.votes_against = WeightSum(SelectSeq(votes, LAMBDA e : e.data.support = 0))
            /\ a.votes_for + a.votes_against = WeightSum(votes)
            /\ a.unique_voters = {e.data.voter : e \in Range(votes)}

\* a proposal with a vote for (500) and a vote against (300) of two voters
C1_Witness ==
    \E pid \in DOMAIN proposal_analytics :
        /\ proposal_analytics[pid].votes_for = 500
        /\ proposal_analytics[pid].votes_against = 300
        /\ Cardinality(proposal_analytics[pid].unique_voters) = 2
        /\ Len(VotesSince(pid)) = 2

(* C2: when the consumer handles a VoteCast that it has already handled      *)
(* against the current entry of its proposal, the weight is added to the     *)
(* for/against tally again, one more velocity sample and one more entry of   *)
(* the voter's profile are appended, and the unique-voter set is unchanged.  *)
C2_ReplayCountsAgain ==
    [][\A t \in DOMAIN consumer :
         LET e == consumer[t].event
         IN  (/\ Handles(t)
              /\ e.event_type = "VoteCast"
              /\ e.data.proposalId \in DOMAIN proposal_analytics
              /\ e \in Range(VotesSince(e.data.proposalId)))
             =>
             LET a == proposal_analytics[e.data.proposalId]
                 b == proposal_analytics'[e.data.proposalId]
             IN  /\ b.votes_for + b.votes_against
                       = a.votes_for + a.votes_against + e.data.weight
                 /\ b.votes_for =
                       a.votes_for + (IF e.data.support # 0 THEN e.data.weight ELSE 0)
                 /\ Len(b.voting_velocity) = Len(a.voting_velocity) + 1
                 /\ Len(voting_patterns'[e.data.voter])
                       = Len(voting_patterns[e.data.voter]) + 1
                 /\ b.unique_voters = a.unique_voters]_vars

\* the same VoteCast has been handled twice against one entry
C2_Witness ==
    \E pid \in DOMAIN proposal_analytics :
        LET votes == VotesSince(pid)
        IN  \E i, j \in 1..Len(votes) :
               /\ i < j
               /\ votes[i] = votes[j]
               /\ proposal_analytics[pid].votes_for + proposal_analytics[pid].votes_against
                     = 2 * votes[i].data.weight
               /\ Cardinality(proposal_analytics[pid].unique_voters) = 1

(* C3: the cursor passes only blocks that were fetched and scanned without   *)
(* an error: no block whose fetch, or the fetch of one of its receipts,      *)
(* failed and that was not scanned again since lies at or below the cursor   *)
(* of a scanner.                                                             *)
C3_NoBlockSkipped ==
    \A g \in DOMAIN scanner : \A c \in DOMAIN scanner[g] :
        \A b \in scanned[c].missed : b > TaskCursor(g, c)

(* C4: the cursor of every chain never decreases, whatever the provider      *)
(* reports as head, whatever fails, and when the chains are initialised      *)
(* again.                                                                    *)
C4_CursorMonotone ==
    [][\A c \in DOMAIN chains : Cursor(c)' >= Cursor(c)]_vars

(* C5: with the scanner and the live feed of a chain both running, as long   *)
(* as the provider has not failed and the chains were not initialised again, *)
(* every log that was decoded and queued was queued once.                    *)
C5_EachLogQueuedOnce ==
    (faults = MaxFaults /\ Len(chain_store) = Len(MonitoredChains))
        => \A l \in DOMAIN delivered : delivered[l] = 1

(* C6: the queue is bounded: it never holds more events than its capacity.   *)
C6_QueueBounded == Len(event_queue) <= QueueCapacity

(* C7: after any sequence of start_monitoring and stop_monitoring calls at   *)
(* most one consumer thread of the queue is active.                          *)
C7_SingleConsumer == Cardinality(ActiveConsumers) <= 1

(* C8: under any interleaving of the consumer and the cleanup task, the      *)
(* alerts that were created and are not older than 7 days are all in the     *)
(* alert list, in the order of their creation.                               *)
C8_RecentAlertsKept ==
    SelectSeq(alerts, Recent) = SelectSeq(trail.created, Recent)

(* C9: once stop_monitoring has cleared the flag, a live-feed loop handles   *)
(* at most the one notification it was working on: it does not go on         *)
(* handling notifications.                                                   *)
C9_FeedStopsAfterStop ==
    ~running =>
        \A g \in DOMAIN trail.fed_stopped : \A c \in DOMAIN trail.fed_stopped[g] :
            trail.fed_stopped[g][c] <= 1

(* C11: the recent-vote window never holds more than 100 votes, and it is   *)
(* always the last 100 (or all, while there are fewer) of the votes checked, *)
(* in the order they were checked: the oldest vote is the one evicted.       *)
C11_WindowIsLastHundred ==
    LET n == Len(trail.checked)
    IN  /\ Len(recent_votes) <= 100
        /\ recent_votes = SubSeq(trail.checked, IF n > 100 THEN n - 99 ELSE 1, n)

\* 102 votes were checked: the window starts at the third of them
C11_Witness ==
    /\ Len(trail.checked) = 102
    /\ Len(recent_votes) = 100
    /\ recent_votes[1] = trail.checked[3]
    /\ recent_votes[100] = trail.checked[102]
    /\ \E i \in 1..100 : recent_votes[i].voter = "0xY"

(* C12: a vote that is checked raises a large_vote alert, of severity medium *)
(* and one only, if and only if its voting power is greater than 100,000.    *)
C12_LargeVoteRule ==
    [][ChecksVote =>
         LET v == Last(trail.checked')
             raised == NewAlertsOf("large_vote")
         IN  /\ Len(raised) = (IF v.voting_power > 100000 THEN 1 ELSE 0)
             /\ \A i \in 1..Len(raised) :
                    /\ raised[i].severity = "medium"
                    /\ raised[i].voter = v.voter
                    /\ raised[i].proposal_id = v.proposal_id]_vars

\* a vote of power 100,001 and one of power 100,000 were checked: one alert
C12_Witness ==
    /\ \E i \in 1..Len(trail.checked) : trail.checked[i].voting_power = 100001
    /\ \E i \in 1..Len(trail.checked) : trail.checked[i].voting_power = 100000
    /\ Len(SelectSeq(alerts, LAMBDA a : a.type = "large_vote")) = 1
    /\ \A i \in 1..Len(alerts) : alerts[i].type = "large_vote" => alerts[i].severity = "medium"

(* C13: a vote that is checked raises a rapid_voting alert, of severity low, *)
(* if and only if a vote was checked before it and the two event times are   *)
(* less than 60 seconds apart.                                               *)
C13_RapidVotingRule ==
    [][ChecksVote =>
         LET v == Last(trail.checked')
             raised == NewAlertsOf("rapid_voting")
             rapid == /\ trail.checked # <<>>
                      /\ Abs(v.event_time - Last(trail.checked).event_time) < 60
         IN  /\ Len(raised) = (IF rapid THEN 1 ELSE 0)
             /\ \A i \in 1..Len(raised) : raised[i].severity = "low"]_vars

(* C14: a vote that is checked raises a coordinated_voting alert, of         *)
(* severity high, if and only if more than 5 of the votes in the window      *)
(* (this one included) are for its proposal and within 300 seconds of it,    *)
(* and more than 95% of those have its support value.                        *)
C14_CoordinatedVotingRule ==
    [][ChecksVote =>
         LET v == Last(trail.checked')
             raised == NewAlertsOf("coordinated_voting")
             n == Len(trail.checked')
             buffered == (IF n > 100 THEN n - 99 ELSE 1)..n
             close == {i \in buffered :
                         /\ trail.checked'[i].proposal_id = v.proposal_id
                         /\ Abs(v.event_time - trail.checked'[i].event_time) < 300}
             same == {i \in close : trail.checked'[i].support = v.support}
             coordinated == /\ Cardinality(close) > 5
                            /\ 100 * Cardinality(same) > 95 * Cardinality(close)
         IN  /\ Len(raised) = (IF coordinated THEN 1 ELSE 0)
             /\ \A i \in 1..Len(raised) : raised[i].severity = "high"]_vars

(* C16: get_proposal_analytics for an id of which no ProposalCreated was     *)
(* handled, and get_voter_profile for an address of which no vote was        *)
(* handled, return the empty result (and so do not raise), in every state.   *)
C16_UnknownKeysGiveEmpty ==
    /\ \A pid \in ProposalIds \cup {0} :
          (\A i \in 1..Len(handled) : ~IsCreation(handled[i], pid))
              => GetProposalAnalytics(pid) = <<>>
    /\ \A voter \in Voters \cup {"0xZ", ""} :
          (\A i \in 1..Len(handled) :
              ~(handled[i].event_type = "VoteCast" /\ handled[i].data.voter = voter))
              => GetVoterProfile(voter) = <<>>

\* proposal 1 and voter 0xX are known, proposal 2 and voter 0xY are not
C16_Witness ==
    /\ GetProposalAnalytics(1) # <<>>
    /\ GetProposalAnalytics(2) = <<>>
    /\ GetVoterProfile("0xX") # <<>>
    /\ GetVoterProfile("0xY") = <<>>
    /\ \E i \in 1..Len(handled) : IsVoteFor(handled[i], 2)

(* C17: when ProposalCreated(id) and then VoteCast events for id were queued *)
(* and the consumer has handled them all, get_proposal_analytics(id) gives   *)
(* votes_for = the summed weight of the votes in favour, votes_against = the *)
(* summed weight of the votes against, and unique_voters = the number of     *)
(* distinct voters.                                                          *)
C17_EndToEndTallies ==
    \A pid \in ProposalIds :
        (/\ Drained
         /\ handled # <<>>
         /\ IsCreation(handled[1], pid)
         /\ \A i \in 2..Len(handled) : IsVoteFor(handled[i], pid))
        =>
        LET votes == Tail(handled)
            result == GetProposalAnalytics(pid)
        IN  /\ result.votes_for =
                  WeightSum(SelectSeq(votes, LAMBDA e : e.data.support # 0))
            /\ result.votes_against =
                  WeightSum(SelectSeq(votes, LAMBDA e : e.data.support = 0))
            /\ result.unique_voters = Cardinality({e.data.voter : e \in Range(votes)})

\* ProposalCreated(1), a vote of 0xX for (500) and a vote of 0xY against (300)
\* were handled in this order: 500 / 300 / 2
C17_Witness ==
    /\ Drained
    /\ Len(handled) = 3
    /\ IsCreation(handled[1], 1)
    /\ IsVoteFor(handled[2], 1) /\ handled[2].data.voter = "0xX"
    /\ handled[2].data.support = 1
    /\ IsVoteFor(handled[3], 1) /\ handled[3].data.voter = "0xY"
    /\ handled[3].data.support = 0
    /\ GetProposalAnalytics(1).votes_for = 500
    /\ GetProposalAnalytics(1).votes_against = 300
    /\ GetProposalAnalytics(1).unique_voters = 2

\* the live feed g of a chain handles a head notification in this step
HandlesNotification(g, chain) ==
    /\ feed[g][chain].pc = "listening"
    /\ feed'[g][chain].pc = "listening"
    /\ Len(feed'[g][chain].inbox) = Len(feed[g][chain].inbox) - 1

(* C18: when the live feed handles a head notification, it does what a       *)
(* polling pass does: afterwards the cursor of the chain is at the notified  *)
(* head.                                                                     *)
C18_FeedRunsPollingPass ==
    [][\A g \in DOMAIN feed : \A c \in DOMAIN feed[g] :
         HandlesNotification(g, c) => Cursor(c)' = Head(feed[g][c].inbox)]_vars

\* no scanner loop and no live-feed loop has ended
LoopsAlive ==
    /\ \A g \in DOMAIN scanner : \A c \in DOMAIN scanner[g] : scanner[g][c].pc = "loop"
    /\ \A g \in DOMAIN feed : \A c \in DOMAIN feed[g] :
          feed[g][c].pc \in {"loop", "listening"}

(* C19: while the monitor runs, no error of the provider ends a scanner loop *)
(* or a live-feed loop, and the cursor of every chain is at the head again   *)
(* and again: after the last failure of the provider it gets there.          *)
C19_ErrorsNotFatal ==
    /\ [](running => LoopsAlive)
    /\ []<>(\A c \in DOMAIN chains : Cursor(c) = chain_head[c])

\* the fetch of a block has failed in a pass, the loops are alive and the
\* cursor is at a head beyond the one the chain started at
C19_Witness ==
    /\ running
    /\ faults < MaxFaults
    /\ \E c \in DOMAIN chains :
          /\ scanned[c].missed # {}
          /\ Cursor(c) = chain_head[c]
          /\ Cursor(c) > RetryFirstHead
    /\ LoopsAlive

\* the log with index l = <<chain, block, transaction, log>> of the fixture
LogAt(l) == Transactions(l[1], l[2])[l[3]].logs[l[4]]

\* the indices of the logs of the receipts _process_block(chain, number) reads
LogsRead(chain, number) ==
    LET txs == Transactions(chain, number)
        read == {t \in DOMAIN txs : /\ txs[t].to # NoAddress
                                    /\ ContractKey(chain, txs[t].to) \in DOMAIN contracts}
    IN  UNION {{<<chain, number, t, i>> : i \in DOMAIN txs[t].logs} : t \in read}

\* a log of a registered contract that decodes against its schema
Recognised(l) ==
    /\ ContractKey(l[1], LogAt(l).address) \in DOMAIN contracts
    /\ Decodes(contracts[ContractKey(l[1], LogAt(l).address)].contract.abi, LogAt(l))

(* C20: a log that matches no registered schema or does not decode puts no   *)
(* event on the queue and ends no loop, and every log that does decode, of   *)
(* every block at or below the cursor of a scanner whose scan met no         *)
(* provider error, was queued: the logs after it in the receipt and the      *)
(* blocks after it in the pass were scanned and the cursor went past them.   *)
C20_UnknownLogSkipped ==
    /\ running => LoopsAlive
    /\ \A l \in DOMAIN delivered : Recognised(l)
    /\ \A g \in DOMAIN scanner : \A c \in DOMAIN scanner[g] :
          \A b \in FirstHead..TaskCursor(g, c) :
             b \notin scanned[c].missed =>
                \A l \in LogsRead(c, b) : Recognised(l) => l \in DOMAIN delivered

\* a pass met no provider error, scanned a receipt whose first log has no
\* schema and whose second does not decode, queued its third log, scanned
\* the block after it and left the cursor there
C20_Witness ==
    \E g \in DOMAIN scanner : \E c \in DOMAIN scanner[g] :
       \E b \in FirstHead..TaskCursor(g, c) - 1 :
          /\ faults = MaxFaults
          /\ scanned[c].pass # <<>>
          /\ scanned[c].pass[1] <= b /\ b < scanned[c].pass[2]
          /\ LogAt(<<c, b, 1, 1>>).topic = "OwnershipTransferred"
          /\ LogAt(<<c, b, 1, 2>>).args = Malformed
          /\ <<c, b, 1, 1>> \notin DOMAIN delivered
          /\ <<c, b, 1, 2>> \notin DOMAIN delivered
          /\ <<c, b, 1, 3>> \in DOMAIN delivered
          /\ \E l \in LogsRead(c, b + 1) : l \in DOMAIN delivered

\* thread g of the cleanup task stores the result of a pass in this step
StoresCleanup(g) == cleaner[g].pc = "store" /\ cleaner'[g].pc = "loop"

C10_UnknownVoteDropped ==
    [][\A t \in DOMAIN consumer :
         (/\ Handles(t)
          /\ consumer[t].event.event_type = "VoteCast"
          /\ consumer[t].event.data.proposalId \notin DOMAIN proposal_analytics)
         =>
         (/\ proposal_analytics' = proposal_analytics
          /\ consumer'[t].pc = "loop"
          /\ running' = running)]_vars

\* a vote for an unknown id was handled, and the events after it were applied
C10_Witness ==
    \E i \in 1..Len(handled) :
        /\ handled[i].event_type = "VoteCast"
        /\ \A j \in 1..i : ~IsCreation(handled[j], handled[i].data.proposalId)
        /\ i + 2 = Len(handled)
        /\ handled[i + 1].event_type = "ProposalCreated"
        /\ IsVoteFor(handled[i + 2], handled[i + 1].data.proposalId)
        /\ proposal_analytics[handled[i + 1].data.proposalId].votes_for
             + proposal_analytics[handled[i + 1].data.proposalId].votes_against
               = handled[i + 2].data.weight


(* C21: in every state and for every proposal with an analytics entry, the   *)
(* number of unique voters is at most the number of voting-velocity samples, *)
(* and the cumulative voter counts of the samples never decrease along the   *)
(* list.                                                                     *)
C21_VotersWithinSamples ==
    \A pid \in DOMAIN proposal_analytics :
        LET a == proposal_analytics[pid]
            v == a.voting_velocity
        IN  /\ Cardinality(a.unique_voters) <= Len(v)
            /\ \A i \in 1..(Len(v) - 1) :
                  v[i].cumulative_votes <= v[i + 1].cumulative_votes

\* a proposal whose one voter voted twice: two samples, one unique voter
C21_Witness ==
    \E pid \in DOMAIN proposal_analytics :
        LET a == proposal_analytics[pid]
            v == a.voting_velocity
        IN  /\ Len(v) = 2
            /\ Cardinality(a.unique_voters) = 1
            /\ v[1].cumulative_votes = 1
            /\ v[2].cumulative_votes = 1

\* event_history[kind]: a defaultdict(list), of which the program writes the
\* key 'proposals' only; every other key reads as the empty list
EventHistory(kind) == IF kind = "proposals" THEN event_history ELSE <<>>

\* the kinds of event _handle_blockchain_event has no branch for
OtherKinds == EventTypeNames \ {"ProposalCreated", "VoteCast"}

(* C22: when the consumer handles an event of a kind other than              *)
(* ProposalCreated and VoteCast, the event is appended to the history of its *)
(* kind, and proposal analytics, voter profiles, the recent-vote window and  *)
(* the alert list stay as they were.                                         *)
C22_OtherKindsRecorded ==
    [][\A t \in DOMAIN consumer :
         (Handles(t) /\ consumer[t].event.event_type \in OtherKinds) =>
            LET kind == consumer[t].event.event_type
            IN  /\ Len(EventHistory(kind)') = Len(EventHistory(kind)) + 1
                /\ Last(EventHistory(kind)') = consumer[t].event
                /\ UNCHANGED <<proposal_analytics, voting_patterns, recent_votes, alerts>>
      ]_vars

\* the differences of the consecutive sample times of a velocity list
SampleDeltas(v) == [i \in 1..(Len(v) - 1) |-> v[i + 1].timestamp - v[i].timestamp]

(* C23: get_proposal_analytics of a known id has the field                   *)
(* avg_voting_interval; it is 0 when the proposal has fewer than 2 velocity  *)
(* samples, none included, and the mean of the differences of consecutive    *)
(* sample times otherwise.                                                   *)
C23_AverageInterval ==
    \A pid \in DOMAIN proposal_analytics :
        LET result == GetProposalAnalytics(pid)
            v == proposal_analytics[pid].voting_velocity
        IN  /\ "avg_voting_interval" \in DOMAIN result
            /\ IF Len(v) < 2
               THEN result.avg_voting_interval.sum = 0
               ELSE result.avg_voting_interval.sum * (Len(v) - 1) =
                       SeqSum(SampleDeltas(v)) * result.avg_voting_interval.count

\* the VoteCast events of a voter that the consumer has handled, in order
VotesOf(voter) ==
    SelectSeq(handled, LAMBDA e : e.event_type = "VoteCast" /\ e.data.voter = voter)

\* the calendar month that holds the most of the events, the month met first
\* in the sequence among equals
BusiestMonth(events) ==
    LET month(i) == MonthKey(events[i].timestamp)
        count(i) == Cardinality({j \in 1..Len(events) : month(j) = month(i)})
        best == CHOOSE i \in 1..Len(events) :
                   /\ \A j \in 1..Len(events) : count(j) <= count(i)
                   /\ \A j \in 1..(i - 1) : count(j) < count(i)
    IN  month(best)

(* C24: for every voter with at least one handled vote, get_voter_profile    *)
(* gives as total_votes the number of VoteCast events handled for the        *)
(* address and as most_active_period the calendar month that holds the most  *)
(* of them, the month met first in arrival order among equals.               *)
C24_VoterProfile ==
    \A voter \in Voters :
        VotesOf(voter) # <<>> =>
            /\ GetVoterProfile(voter) # <<>>
            /\ GetVoterProfile(voter).total_votes = Len(VotesOf(voter))
            /\ GetVoterProfile(voter).most_active_period = BusiestMonth(VotesOf(voter))

\* get_realtime_stats: an alert counts as active for this many seconds
active_alert_age == 3600

\* get_realtime_stats
GetRealtimeStats ==
    [total_proposals_monitored |-> Len(EventHistory("proposals")),
     unique_voters             |-> Cardinality(DOMAIN voting_patterns),
     active_alerts             |->
         Cardinality({i \in 1..Len(alerts) : now - alerts[i].timestamp < active_alert_age}),
     chains_monitored          |-> DOMAIN chains,
     contracts_monitored       |-> Cardinality(DOMAIN contracts),
     uptime                    |-> Str(now)]

(* C25: in every state get_realtime_stats gives as proposals monitored the   *)
(* number of proposal ids that have an analytics entry, as unique voters the *)
(* number of addresses with a voter profile and as active alerts the number  *)
(* of alerts created within the last hour.                                   *)
C25_StatsCountEntries ==
    /\ GetRealtimeStats.total_proposals_monitored = Cardinality(DOMAIN proposal_analytics)
    /\ GetRealtimeStats.unique_voters =
          Cardinality({v \in Voters : GetVoterProfile(v) # <<>>})
    /\ GetRealtimeStats.active_alerts =
          Cardinality({i \in 1..Len(alerts) : alerts[i].timestamp > now - active_alert_age})

\* the snapshot task g ends a pass in this step
EndsSnapshot(g) == snapshotter[g].pc = "iterating" /\ snapshotter'[g].pc = "loop"

\* the snapshot task g writes the cache entry of proposal_id in this step
WritesSnapshot(g, proposal_id) ==
    /\ snapshotter[g].pc = "iterating"
    /\ snapshotter'[g].pc = "iterating"
    /\ snapshotter'[g].todo = snapshotter[g].todo \ {proposal_id}
    /\ snapshotter'[g].todo # snapshotter[g].todo

(* C26: a snapshot pass, the cache being reachable, writes for every         *)
(* proposal id the engine knew when the pass began one cache entry under the *)
(* key of the id, with an expiry of 3600 seconds and get_proposal_analytics  *)
(* of the id as payload, and no step of the pass changes the analytics.      *)
C26_SnapshotWritesAll ==
    [][\A g \in DOMAIN snapshotter :
         /\ EndsSnapshot(g) => snapshotter[g].todo = {}
         /\ \A pid \in ProposalIds :
               WritesSnapshot(g, pid) =>
                  /\ DOMAIN redis' = DOMAIN redis \cup {CacheKey(pid)}
                  /\ redis'[CacheKey(pid)] =
                        [value |-> JsonDumps(GetProposalAnalytics(pid)), ttl |-> 3600]
                  /\ \A k \in DOMAIN redis \ {CacheKey(pid)} : redis'[k] = redis[k]
                  /\ UNCHANGED engineVars
      ]_vars

\* thread t handles a VoteCast for a proposal id without analytics entry in
\* this step
HandlesUnknownVote(t) ==
    /\ Handles(t)
    /\ consumer[t].event.event_type = "VoteCast"
    /\ consumer[t].event.data.proposalId \notin DOMAIN proposal_analytics

(* C27: a VoteCast for an unknown proposal id is dropped completely: the     *)
(* step that handles it leaves the proposal analytics, the voter profiles    *)
(* (no entry appended, no profile created), the recent-vote window and the   *)
(* alert list as they were.                                                  *)
C27_UnknownVoteLeavesNoTrace ==
    [][\A t \in DOMAIN consumer :
         HandlesUnknownVote(t) =>
            /\ proposal_analytics' = proposal_analytics
            /\ voting_patterns' = voting_patterns
            /\ recent_votes' = recent_votes
            /\ alerts' = alerts]_vars

\* the votes of the window `checked` that are for the proposal of its last
\* vote v and stamped in the trailing coordinated_window seconds of v: not
\* later than v and less than the window before it
TrailingVotes(checked) ==
    LET n == Len(checked)
        v == checked[n]
        buffered == (IF n > recent_votes_maxlen THEN n - recent_votes_maxlen + 1 ELSE 1)..n
    IN  {i \in buffered :
            /\ checked[i].proposal_id = v.proposal_id
            /\ checked[i].event_time <= v.event_time
            /\ v.event_time - checked[i].event_time < coordinated_window}

(* C28: the coordinated-voting rule counts only the buffered votes for the   *)
(* proposal of the current vote that are stamped in its trailing 300         *)
(* seconds: the count a coordinated_voting alert reports is the number of    *)
(* those votes, and it is more than 5.                                       *)
C28_CountsTrailingVotesOnly ==
    [][ChecksVote =>
         LET raised == NewAlertsOf("coordinated_voting")
             counted == Cardinality(TrailingVotes(trail.checked'))
         IN  \A i \in 1..Len(raised) :
                /\ raised[i].message[3] = counted
                /\ counted > 5]_vars

(* C29: the events of one chain reach the consumer in the order of their     *)
(* blocks: of two events of a chain, the one handled later has a block       *)
(* number greater than or equal to that of the one handled earlier, also     *)
(* with the scanner and the live feed of the chain both running.             *)
C29_HandledInBlockOrder ==
    \A i, j \in 1..Len(handled) :
        (i < j /\ handled[i].chain = handled[j].chain)
            => handled[i].block_number <= handled[j].block_number

\* the scanner task g of a chain runs a pass that meets no provider error in
\* this step
PassesClean(g, chain) ==
    /\ chains' = chains
    /\ faults' = faults
    /\ \/ scanned'[chain].pass # scanned[chain].pass
       \/ TaskCursor(g, chain)' # TaskCursor(g, chain)

\* the events put on the queue in this step
Queued == SubSeq(event_queue', Len(event_queue) + 1, Len(event_queue'))

(* C30: a pass that meets no provider error and finds the cursor unset scans *)
(* exactly the blocks head-99 .. head, and one that finds it set exactly the *)
(* blocks cursor+1 .. head: the events it queues are those of these blocks,  *)
(* block by block in ascending order, and it leaves the cursor at the head.  *)
C30_PassScansFromCursor ==
    [][\A g \in DOMAIN scanner : \A c \in DOMAIN scanner[g] :
         PassesClean(g, c) =>
            LET cursor == TaskCursor(g, c)
                head == chain_head[c]
                first == IF cursor = 0 THEN head - 99 ELSE cursor + 1
            IN  /\ scanned'[c].pass = <<first, head>>
                /\ TaskCursor(g, c)' = head
                /\ \A k \in 1..Len(Queued) : Queued[k].block_number \in first..head
                /\ \A k \in 1..(Len(Queued) - 1) :
                      Queued[k].block_number <= Queued[k + 1].block_number
                /\ \A b \in first..head :
                      SelectSeq(Queued, LAMBDA e : e.block_number = b)
                         = EventsOf(ProcessBlock(c, b, NoFault))
      ]_vars

\* the first pass scanned the 100 blocks up to the first head, and a later
\* pass without provider error scanned the two blocks mined since and left
\* the cursor at the head
C30_Witness ==
    \E g \in DOMAIN scanner : \E c \in DOMAIN scanner[g] :
        /\ faults = MaxFaults
        /\ Len(chain_store) = Len(MonitoredChains)
        /\ <<c, FirstHead, 1, 1>> \in DOMAIN delivered
        /\ scanned[c].pass = <<FirstHead + 1, FirstHead + 2>>
        /\ TaskCursor(g, c) = FirstHead + 2
        /\ chain_head[c] = FirstHead + 2

\* thread t handles a ProposalCreated for an id that has an analytics entry
\* in this step
HandlesSecondCreation(t) ==
    /\ Handles(t)
    /\ consumer[t].event.event_type = "ProposalCreated"
    /\ consumer[t].event.data.proposalId \in DOMAIN proposal_analytics

(* C31: a ProposalCreated for an id that has an analytics entry replaces the *)
(* entry by a fresh one: both tallies 0, no unique voter, no velocity        *)
(* sample, the time of the later event as creation time; the entries of the  *)
(* other ids, the voter profiles, the recent-vote window and the alerts stay *)
(* as they were.                                                             *)
C31_LastWriterWins ==
    [][\A t \in DOMAIN consumer :
         HandlesSecondCreation(t) =>
            LET event == consumer[t].event
                pid == event.data.proposalId
            IN  /\ DOMAIN proposal_analytics' = DOMAIN proposal_analytics
                /\ proposal_analytics'[pid].votes_for = 0
                /\ proposal_analytics'[pid].votes_against = 0
                /\ proposal_analytics'[pid].unique_voters = {}
                /\ proposal_analytics'[pid].voting_velocity = <<>>
                /\ proposal_analytics'[pid].created_at = event.timestamp
                /\ \A other \in DOMAIN proposal_analytics \ {pid} :
                      proposal_analytics'[other] = proposal_analytics[other]
                /\ UNCHANGED <<voting_patterns, recent_votes, alerts>>]_vars

\* proposal 1 was created, a vote on it was tallied, and a later
\* ProposalCreated(1) was handled last: the entry is fresh, the profile of
\* the voter is still there
C31_Witness ==
    \E i, j \in 1..Len(handled) :
        /\ i < j /\ j < Len(handled)
        /\ IsCreation(handled[i], 1)
        /\ IsVoteFor(handled[j], 1)
        /\ IsCreation(Last(handled), 1)
        /\ Last(handled).timestamp > handled[i].timestamp
        /\ proposal_analytics[1].created_at = Last(handled).timestamp
        /\ proposal_analytics[1].votes_for = 0
        /\ proposal_analytics[1].unique_voters = {}
        /\ handled[j].data.voter \in DOMAIN voting_patterns
        /\ recent_votes # <<>>

-----------------------------------------------------------------------------
(* SpecAccess: an outer layer polls the accessors between the steps of the   *)
(* producers and of the consumer thread of one start.                        *)

\* calls of the accessors a behaviour makes at most
MaxCalls == 2

\* A mutant of AnalyticsAfterGet: avg_voting_interval is assigned on the
\* entry itself.
AnalyticsAfterGetInPlace(proposal_id) ==
    IF proposal_id \notin DOMAIN proposal_analytics THEN proposal_analytics
    ELSE LET a == proposal_analytics[proposal_id]
             result == GetProposalAnalytics(proposal_id)
         IN  [proposal_analytics EXCEPT ![proposal_id] =
                [x \in DOMAIN result |-> IF x \in DOMAIN a THEN a[x] ELSE result[x]]]

\* self.proposal_analytics after get_proposal_analytics: the entry is copied
\* (.copy()) before unique_voters and avg_voting_interval are assigned, and
\* the voting_velocity list the copy shares is only read
AnalyticsAfterGet(proposal_id) == proposal_analytics

\* the caller keeps what an accessor returned
Returned(name, arg, result) ==
    /\ Len(trail.returned) < MaxCalls
    /\ trail' = [trail EXCEPT
                    !.returned = Append(@, [call |-> name, arg |-> arg, result |-> result])]

\* get_proposal_analytics(proposal_id)
CallGetProposalAnalytics(proposal_id) ==
    /\ Returned("get_proposal_analytics", proposal_id, GetProposalAnalytics(proposal_id))
    /\ proposal_analytics' = AnalyticsAfterGet(proposal_id)
    /\ UNCHANGED <<event_history, voting_patterns, recent_votes, alerts, chainVars,
                   taskVars, running, event_queue, consumer, now, handled, produced>>

\* get_voter_profile(voter_address): the membership test comes first, so the
\* defaultdict is not indexed with an unknown address
CallGetVoterProfile(voter_address) ==
    /\ Returned("get_voter_profile", voter_address, GetVoterProfile(voter_address))
    /\ UNCHANGED <<engineVars, chainVars, taskVars, running, event_queue, consumer, now,
                   handled, produced>>

\* get_realtime_stats: event_history['proposals'] is indexed; the list the
\* defaultdict holds, or makes, under the key is only measured
CallGetRealtimeStats ==
    /\ Returned("get_realtime_stats", "", GetRealtimeStats)
    /\ UNCHANGED <<engineVars, chainVars, taskVars, running, event_queue, consumer, now,
                   handled, produced>>

\* the creation of proposal 1 and a vote of each voter on it
AccessEvents ==
    {e \in DecodedEvents :
        \/ e.event_type = "ProposalCreated" /\ e.data.proposalId = 1
        \/ /\ e.event_type = "VoteCast"
           /\ e.data.proposalId = 1
           /\ <<e.data.voter, e.data.support>> \in {<<"0xX", 1>>, <<"0xY", 0>>}}

NextAccess ==
    \/ \E e \in AccessEvents : EnqueueEvent(e)
    \/ \E t \in DOMAIN consumer : ConsumerGet(t)
    \/ \E t \in DOMAIN consumer : ConsumerHandle(t)
    \/ \E proposal_id \in ProposalIds : CallGetProposalAnalytics(proposal_id)
    \/ \E voter_address \in Voters : CallGetVoterProfile(voter_address)
    \/ CallGetRealtimeStats

SpecAccess == InitStarted /\ [][NextAccess]_vars

\* an accessor returns in this step
AccessorReturns == Len(trail.returned') = Len(trail.returned) + 1

-----------------------------------------------------------------------------
(* SpecRegistry: contracts are added while the scanner of one start follows  *)
(* the chain and the consumer thread handles what it queues.                 *)

\* the chains a caller may name; polygon is never initialised here
ChainNames == {"ethereum", "polygon"}

\* the contracts a caller adds: an address in either case form, its schema
\* and its type
Addable ==
    {<<a, GOVERNOR_ABI, "governance">> : a \in {Governor, GovernorLower}}
    \cup {<<a, TOKEN_ABI, "token">> : a \in {Token, TokenLower}}

\* A mutant of AddedContracts: the chain is not looked up first.
AddedContractsUnchecked(chain, address, abi, contract_type) ==
    [k \in DOMAIN contracts \cup {ContractKey(chain, address)} |->
        IF k = ContractKey(chain, address)
        THEN Registration(chain, address, abi, contract_type)
        ELSE contracts[k]]

\* self.contracts after add_contract: unchanged when the chain is not
\* initialised (ValueError), else the entry is stored under the chain and
\* the address as the caller wrote it
AddedContracts(chain, address, abi, contract_type) ==
    IF chain \notin DOMAIN chains THEN contracts
    ELSE [k \in DOMAIN contracts \cup {ContractKey(chain, address)} |->
             IF k = ContractKey(chain, address)
             THEN Registration(chain, address, abi, contract_type)
             ELSE contracts[k]]

\* add_contract
AddContract(chain, address, abi, contract_type) ==
    /\ contracts' = AddedContracts(chain, address, abi, contract_type)
    /\ IF chain \notin DOMAIN chains
       THEN Returned("add_contract", <<chain, address>>, [raised |-> "ValueError"])
       ELSE UNCHANGED trail
    /\ UNCHANGED <<engineVars, taskVars, running, chains, chain_store, chain_head, faults,
                   delivered, scanned, event_queue, consumer, now, handled, produced>>

NextRegistry ==
    \/ \E chain \in ChainNames : \E c \in Addable : AddContract(chain, c[1], c[2], c[3])
    \/ \E c \in DOMAIN chains : ProviderNewBlock(c)
    \/ \E g \in DOMAIN scanner : \E c \in DOMAIN scanner[g] : MonitorChain(g, c)
    \/ \E t \in DOMAIN consumer : ConsumerGet(t)
    \/ \E t \in DOMAIN consumer : ConsumerHandle(t)

SpecRegistry == InitStarted /\ [][NextRegistry]_vars

(* C33: the registry holds at most one entry per chain and checksum address, *)
(* whatever case form the callers of add_contract wrote, and the scanner     *)
(* recognises a transaction or log of every registered contract: the key it  *)
(* builds from the chain and the address the provider reports is a key of    *)
(* the registry.                                                             *)
C33_RegistryUniqueByChecksum ==
    /\ \A k1, k2 \in DOMAIN contracts :
          (/\ contracts[k1].chain = contracts[k2].chain
           /\ contracts[k1].contract.address = contracts[k2].contract.address) => k1 = k2
    /\ \A k \in DOMAIN contracts :
          ContractKey(contracts[k].chain, contracts[k].contract.address) \in DOMAIN contracts

\* add_contract raises in this step
AddContractRaises ==
    /\ AccessorReturns
    /\ Last(trail.returned').call = "add_contract"
    /\ Last(trail.returned').result = [raised |-> "ValueError"]

(* C34: add_contract for a chain that is not initialised raises ValueError   *)
(* and leaves the registry and the chain table as they were; every step that *)
(* changes the registry stores an entry of an initialised chain.             *)
C34_UnknownChainFailsFast ==
    [][/\ AddContractRaises =>
             /\ Last(trail.returned').arg[1] \notin DOMAIN chains
             /\ UNCHANGED <<contracts, chains, chain_store>>
       /\ contracts' # contracts =>
             /\ AddContractRaises = FALSE
             /\ \A k \in DOMAIN contracts' : contracts'[k].chain \in DOMAIN chains']_vars

\* add_contract for polygon raised after the token had been added on
\* ethereum: the registry holds the governor and the token of ethereum only
C34_Witness ==
    /\ \E i \in 1..Len(trail.returned) :
          /\ trail.returned[i].call = "add_contract"
          /\ trail.returned[i].arg = <<"polygon", Governor>>
          /\ trail.returned[i].result = [raised |-> "ValueError"]
    /\ DOMAIN contracts = {ContractKey("ethereum", Governor), ContractKey("ethereum", Token)}

-----------------------------------------------------------------------------
(* SpecQueue: the producers queue events, one of them decoded against a      *)
(* schema whose ProposalCreated has no proposer; the consumer thread of one  *)
(* start, which the operating system schedules, handles them.                *)

\* ProposalCreated(2) as a governor schema without the proposer input gives it
UndecodableCreation ==
    BlockchainEvent("ethereum", "ProposalCreated", <<101, 2>>, 101, [proposalId |-> 2])

\* the creation of proposal 1, a vote on it, and the event whose handling raises
QueueEvents ==
    {e \in DecodedEvents :
        \/ e.event_type = "ProposalCreated" /\ e.data.proposalId = 1
        \/ /\ e.event_type = "VoteCast"
           /\ e.data.proposalId = 1
           /\ e.data.voter = "0xX"
           /\ e.data.support = 1}
    \cup {UndecodableCreation}

NextQueue ==
    \/ \E e \in QueueEvents : EnqueueEvent(e)
    \/ \E t \in DOMAIN consumer : ConsumerGet(t)
    \/ \E t \in DOMAIN consumer : ConsumerHandle(t)

\* the consumer is a thread of its own: it is not starved
SpecQueue ==
    /\ InitStarted
    /\ [][NextQueue]_vars
    /\ WF_vars(\E t \in DOMAIN consumer : ConsumerGet(t))
    /\ WF_vars(\E t \in DOMAIN consumer : ConsumerHandle(t))

(* C35: while the monitor runs, the events handled are at every moment the   *)
(* first of the events put on the queue, each once and in the order of the   *)
(* puts; every event put on the queue is eventually handled; and when the    *)
(* handling of an event raises, the error is logged, the engine is left as   *)
(* it was and the consumer goes on with its loop.                            *)
C35_HandledOnceInOrder ==
    /\ [](running =>
            /\ Len(handled) <= Len(trail.queued)
            /\ handled = SubSeq(trail.queued, 1, Len(handled)))
    /\ \A n \in 1..MaxEvents :
          (running /\ Len(trail.queued) >= n) ~> (Len(handled) >= n)
    /\ [][\A t \in DOMAIN consumer :
            (/\ consumer[t].pc = "handling"
             /\ consumer'[t].pc # "handling"
             /\ Raises(consumer[t].event)) =>
               /\ trail.logged' = Append(trail.logged, consumer[t].event)
               /\ consumer'[t].pc = "loop"
               /\ UNCHANGED engineVars]_vars

\* three events were queued, the one whose handling raises first; all three
\* were handled in that order, the error was logged, and the creation and
\* the vote that followed it were applied
C35_Witness ==
    /\ running
    /\ Len(trail.queued) = 3
    /\ handled = trail.queued
    /\ handled[1] = UndecodableCreation
    /\ IsCreation(handled[2], 1)
    /\ IsVoteFor(handled[3], 1)
    /\ trail.logged = <<UndecodableCreation>>
    /\ 1 \in DOMAIN proposal_analytics
    /\ proposal_analytics[1].votes_for > 0

(* C36: when stop_monitoring has been called and every consumer thread has   *)
(* left its loop, the consumer has handled at least as many events as had    *)
(* been put on the queue when stop_monitoring was called (the queue being    *)
(* first-in first-out, these are the events put before the stop).            *)
C36_StopLosesNoEvent ==
    (/\ ~running
     /\ \A t \in DOMAIN consumer : consumer[t].pc = "exited")
    => Len(handled) >= trail.accepted

-----------------------------------------------------------------------------
(* SpecChains: a governor is followed on ethereum and on polygon; both have  *)
(* a proposal 1.  The producers queue the events, the consumer thread of one *)
(* start handles them.                                                       *)

\* the creation of proposal 1 and a vote on it, on each of the two chains
ChainEvents ==
    UNION {{BlockchainEvent(c, "ProposalCreated", <<101, 1>>, 101,
                            [proposalId |-> 1, proposer |-> "0xX"]),
            BlockchainEvent(c, "VoteCast", <<102, 1>>, 102,
                            [proposalId |-> 1, voter |-> "0xX", support |-> 1,
                             weight |-> Weight("0xX")])} : c \in {"ethereum", "polygon"}}

NextChains ==
    \/ \E e \in ChainEvents : EnqueueEvent(e)
    \/ \E t \in DOMAIN consumer : ConsumerGet(t)
    \/ \E t \in DOMAIN consumer : ConsumerHandle(t)

SpecChains == InitStarted /\ [][NextChains]_vars

\* the chain of the ProposalCreated that made the current entry of pid
CreatedOn(pid) == handled[LastCreated(pid)].chain

(* C37: when the consumer handles an event of one chain that names a         *)
(* proposal id whose analytics entry was created by a ProposalCreated of     *)
(* another chain, that entry stays as it was.                                *)
C37_ChainsIsolated ==
    [][\A t \in DOMAIN consumer :
         Handles(t) =>
            LET event == consumer[t].event
                pid == event.data.proposalId
            IN  (/\ pid \in DOMAIN proposal_analytics
                 /\ LastCreated(pid) # 0
                 /\ CreatedOn(pid) # event.chain)
                => proposal_analytics'[pid] = proposal_analytics[pid]]_vars

\* the consumer has created an analytics entry since the pass of snapshot
\* task g began
CreatedDuringPass(g) ==
    /\ snapshotter[g].pc = "iterating"
    /\ Cardinality(DOMAIN proposal_analytics) # snapshotter[g].size

(* C38: a snapshot pass during which the consumer thread creates a new       *)
(* analytics entry ends only when it has written the cache entry of every    *)
(* proposal id that was known when the pass began.                           *)
C38_PassSurvivesCreation ==
    [][\A g \in DOMAIN snapshotter :
         (CreatedDuringPass(g) /\ EndsSnapshot(g)) => snapshotter[g].todo = {}]_vars

=============================================================================
